---- MODULE Spec2Model ----
(***************************************************************************)
(* Model of the federation loader of @mexty/block                          *)
(* (src/src/utils/federationLoader.ts).                                    *)
(*                                                                         *)
(* JavaScript runs one job at a time; an async function runs               *)
(* synchronously up to its next await.  Every action below is one such     *)
(* run: a call of loadModule up to its first await, or the continuation    *)
(* that follows the settling of the awaited promise.                       *)
(*                                                                         *)
(* Strings the code computes with (block identifiers, global names, URLs)  *)
(* are sequences of one-character or token strings, so that replace(),     *)
(* startsWith() and concatenation are computed, not assumed.               *)
(***************************************************************************)
EXTENDS Integers, Sequences, FiniteSets, TLC

VARIABLES
    cache,            \* FederationLoader.cache: blockId -> {component, loadedAt, federationUrl}
    loadingPromises,  \* FederationLoader.loadingPromises: blockId -> promise (episode index)
    serverUrl,        \* FederationLoader.serverUrl
    episodes,         \* the invocations of _loadModuleInternal, in order of start
    calls,            \* the invocations of loadModule, in order of issue
    scripts,          \* document: the <script src=url> tags and their load state
    window,           \* the global namespace: name -> what is published under it
    now,              \* the latest reading of Date.now()
    registry,         \* BlockRegistryManager.registry: componentName -> entry
    authorRegistry,   \* BlockRegistryManager.authorRegistry: author -> componentName -> entry
    lastFetched,      \* BlockRegistryManager.lastFetched
    regOps,           \* the calls of the registry's async methods, in order of issue
    invalidated,      \* the registry's clearCache() was called and no method since
    tags,             \* document.head: the <script> elements appended, in order
    scriptCalls,      \* the invocations of _loadScript on that document, in order
    block,            \* a rendered <Block>: its React state and its loadAndMount run
    config,           \* the options passed to configure() so far, each at its latest value
    info,             \* the debugging calls: the latest, and the object getCacheInfo() gave
    authorBlock       \* a rendered <AuthorBlock>: its React state and its effect runs

\* The state of the federation loader and of the page.
loaderVars == <<cache, loadingPromises, serverUrl, episodes, calls, scripts, window>>

\* The state of the block registry.
regVars == <<registry, authorRegistry, lastFetched, regOps, invalidated>>

\* The document of _loadScript taken on its own.
docVars == <<tags, scriptCalls>>

\* The rendering adapter.
uiVars == <<block, config, info, authorBlock>>

vars == <<cache, loadingPromises, serverUrl, episodes, calls, scripts, window, now,
          registry, authorRegistry, lastFetched, regOps, invalidated,
          tags, scriptCalls, block, config, info, authorBlock>>

----------------------------------------------------------------------------
(* Bounds of the model *)

\* The calls of loadModule in a behaviour of Spec.
MaxCalls == 3

\* The calls of loadModule in a behaviour of SpecWide.
WideCalls == 2

\* The calls of the registry's async methods in a behaviour of SpecRegistry.
MaxRegOps == 2

\* The calls of _loadScript in a behaviour of SpecScript.
MaxScriptCalls == 3

----------------------------------------------------------------------------
(* Strings *)

\* The characters [a-zA-Z0-9] that occur in the identifiers of the model.
AlnumChars == {"a", "b", "c", "e", "h", "k", "l", "n", "o", "r", "s", "t"}

IsAlnum(ch) == ch \in AlnumChars

\* blockId.replace(/[^a-zA-Z0-9]/g, '')
StripNonAlnum(s) == SelectSeq(s, IsAlnum)

BlockPrefix == <<"b", "l", "o", "c", "k">>

ThreeScene == <<"t", "h", "r", "e", "e", "s", "c", "e", "n", "e">>

\* The candidates with the second and the third exchanged.
possibleNamesSwapped(blockId) ==
    << blockId,
       BlockPrefix \o StripNonAlnum(blockId),
       StripNonAlnum(blockId),
       ThreeScene >>

\* possibleNames of _extractModule
possibleNames(blockId) ==
    << blockId,
       StripNonAlnum(blockId),
       BlockPrefix \o StripNonAlnum(blockId),
       ThreeScene >>

Range(s) == { s[i] : i \in DOMAIN s }

\* The block identifiers callers use.
IdAB == <<"a", "-", "b">>
IdPlain == <<"a", "b">>
Ids == {IdAB, IdPlain}

\* The global names the search can read.
Names == UNION { Range(possibleNames(X)) : X \in Ids }

----------------------------------------------------------------------------
(* Time *)

\* 5 * 60 * 1000 ms, the freshness window of loadModule
TTL == 5 * 60 * 1000

\* The values Date.now() takes in the model.
Times == {0, 1, TTL}

\* Date.now() may return t: the clock does not run backwards.
clockReads(t) == t \in Times /\ t >= now

----------------------------------------------------------------------------
(* URLs and metadata *)

\* The default of the constructor: 'https://api.v2.mext.app'
DefaultServerUrl == <<"http", "s://api.v2.mext.app">>

\* metadata.federationUrl as the server may send it: missing, server-relative, absolute.
NoUrl == <<>>
RelativeUrl == <<"/federation/remoteEntry.js">>
AbsoluteUrl == <<"http", "s://cdn.mext.app/remoteEntry.js">>
FedUrls == {NoUrl, RelativeUrl, AbsoluteUrl}

BuildStatuses == {"pending", "building", "success", "failed"}

\* What axios.get settles with: a rejection, or response.data.
MetaError == [error |-> TRUE, federationUrl |-> NoUrl, buildStatus |-> ""]
MetaResponses ==
    {MetaError} \cup
    { [error |-> FALSE, federationUrl |-> f, buildStatus |-> b] : f \in FedUrls, b \in BuildStatuses }
\* A rejection, and a built block at a server-relative URL.
SomeResponses ==
    { MetaError,
      [error |-> FALSE, federationUrl |-> RelativeUrl, buildStatus |-> "success"] }
NoMeta == [error |-> FALSE, federationUrl |-> NoUrl, buildStatus |-> ""]

\* metadata.federationUrl.startsWith('http')
startsWithHttp(u) == Len(u) >= 1 /\ u[1] = "http"

\* the federationUrl of _loadModuleInternal: as-is when complete, else prefixed
resolveFederationUrl(fedUrl, base) ==
    IF startsWithHttp(fedUrl) THEN fedUrl ELSE base \o fedUrl

\* A server-relative path that begins with the letters http.
HttpPathUrl == <<"http", "-assets/remoteEntry.js">>

\* A server set with configure({serverUrl}).
OtherServerUrl == <<"http", "://localhost:3001">>
ServerUrls == {DefaultServerUrl, OtherServerUrl}

\* The script URLs the model can inject.
Urls ==
    { resolveFederationUrl(f, b) :
          f \in (FedUrls \cup {HttpPathUrl}) \ {NoUrl}, b \in ServerUrls }

----------------------------------------------------------------------------
(* The global namespace: containers and the modules they hand out *)

\* What './Block' modules export (interface FederationModule): mount is a
\* function or undefined; default is an object or undefined, and its mount a
\* function or undefined.
Modules == {"mMount", "mDefault", "mNone", "mEmpty"}

Exports(m) ==
    CASE m = "mMount"   -> [mount |-> "function",  default |-> FALSE, defaultMount |-> "undefined"]
      [] m = "mDefault" -> [mount |-> "undefined", default |-> TRUE,  defaultMount |-> "function"]
      [] m = "mNone"    -> [mount |-> "undefined", default |-> TRUE,  defaultMount |-> "undefined"]
      [] m = "mEmpty"   -> [mount |-> "undefined", default |-> FALSE, defaultMount |-> "undefined"]

\* module.mount || module.default?.mount
mountFunction(m) ==
    LET x == Exports(m) IN
    IF x.mount # "undefined" THEN x.mount
    ELSE IF x.default THEN x.defaultMount ELSE "undefined"

\* A check that takes every module for mountable.
hasMountAny(m) == m \in Modules

\* typeof mountFunction === 'function'
hasMount(m) == mountFunction(m) = "function"

\* window[name]: nothing, an object without get, an object whose get is no
\* function (calling it throws), a container whose get('./Block') rejects, or
\* a container whose get('./Block') gives a factory of module m.
Containers == {"absent", "noget", "badget", "rejects"} \cup Modules

\* container && container.get, and the call of get does not throw at once
awaitsGet(c) == c \in {"rejects"} \cup Modules

\* The for loop of _extractModule from position i up to its next await:
\* the position of the first candidate whose get is called and awaited,
\* or Len(names) + 1 when the loop runs off the end.
RECURSIVE scanFrom(_, _, _)
scanFrom(names, w, i) ==
    IF i > Len(names) THEN i
    ELSE IF awaitsGet(w[names[i]]) THEN i
    ELSE scanFrom(names, w, i + 1)

----------------------------------------------------------------------------
(* Outcomes of a promise *)

Pending == [kind |-> "pending", val |-> "", detail |-> <<>>]
Ok(m) == [kind |-> "ok", val |-> m, detail |-> <<>>]
Fail(k, d) == [kind |-> k, val |-> "", detail |-> d]

\* The errors thrown inside _loadModuleInternal
ErrMetadata == Fail("Failed to fetch block metadata", <<>>)
ErrNoUrl(X) == Fail("does not have a federation URL", <<X>>)
ErrBuild(X, b) == Fail("build status is", <<X, <<b>>>>)
ErrScript(u) == Fail("Failed to load script", <<u>>)
ErrNotFound(X) == Fail("Federation container not found", <<X>> \o possibleNames(X))

----------------------------------------------------------------------------
(* State *)

NoPublication == [name |-> <<>>, container |-> "absent"]

\* What a bundle may publish when it executes: nothing the search can see,
\* or one container under one global name.
Publications ==
    { NoPublication,
      [name |-> BlockPrefix \o <<"a", "b">>, container |-> "mMount"],
      [name |-> ThreeScene,                 container |-> "mDefault"] }

\* A call of _loadModuleInternal, suspended at the await named by pc:
\*   "meta"    await this.getBlockMetadata(blockId)   (axios.get outstanding)
\*   "script"  await this._loadScript(url)            (tag appended, onload/onerror outstanding)
\*   "loaded"  await this._loadScript(url)            (promise resolved, continuation not yet run)
\*   "get"     await container.get('./Block')         (inside _extractModule)
\*   "settled" the promise it returned is fulfilled or rejected
newEpisode(X) ==
    [ id       |-> X,
      pc       |-> "meta",
      base     |-> serverUrl,     \* the server the metadata request was sent to
      meta     |-> NoMeta,        \* what the metadata request settled with
      url      |-> <<>>,          \* the script URL handed to _loadScript
      idx      |-> 0,             \* position in possibleNames of the awaited get
      got      |-> "absent",      \* the container whose get is awaited
      outcome  |-> Pending,
      at       |-> -1,            \* Date.now() of its cache write
      injected |-> FALSE,         \* it appended a script tag
      searched |-> FALSE,         \* it entered _extractModule
      clearedInFlight |-> FALSE,  \* clearCache was called during its flight (kept
                                  \* until the finally block of its caller)
      cleared  |-> "no" ]         \* clearCache removed the entry it wrote: "no",
                                  \* "early" (before its caller resumed) or "late"

\* {}
EmptyObject == [k \in {} |-> 0]

\* A document without script elements, and no call of _loadScript yet.
DocumentInit ==
    /\ tags = << >>
    /\ scriptCalls = << >>

\* err.message of no error: error is null
NoMessage == << >>

\* <Block blockId={X}> after its first render and the start of its effect:
\* useState(true), useState(null), useState(null), and loadAndMount run up to
\* its first await, that of federationLoader.loadModule(blockId).
newBlock(X) ==
    [ blockId   |-> X,
      isLoading |-> TRUE,
      error     |-> NoMessage,    \* error.message, NoMessage when error is null
      MountedComponent |-> FALSE, \* a WrapperComponent is set
      mounted   |-> FALSE,        \* the state of the WrapperComponent
      module    |-> "none",       \* the module loadModule resolved with
      pc        |-> "load",       \* "load": await loadModule; "wait": await the
                                  \* timer; "wrapper": the WrapperComponent is
                                  \* rendered, its effect not yet run; "done"
      attempt   |-> 1,
      delay     |-> 0,            \* the delay of the timer awaited
      loads     |-> 1,            \* calls of federationLoader.loadModule
      waits     |-> << >>,        \* the delays waited, in order
      failures  |-> << >>,        \* the messages its loadModule calls failed with
      onError   |-> 0,            \* calls of onError
      onLoad    |-> 0 ]           \* calls of onLoad

\* config.cacheDuration when the option is left out
NoDuration == -1

\* An AuthorBlock before its first effect: the initial values of useState.
\* BlockComponent and metadata name the effect run that set them, 0 for null.
newAuthorBlock ==
    [ BlockComponent |-> 0,
      loading        |-> TRUE,
      error          |-> << >>,
      metadata       |-> 0,
      runs           |-> << >> ]    \* the runs of the effect, in order of start

\* No debugging call was made: nothing is held.
NoInfo == [op |-> "none", arg |-> << >>, held |-> FALSE, same |-> FALSE, copy |-> << >>]

\* configure() was never called.
NoConfig == [serverUrl |-> NoUrl, cacheDuration |-> NoDuration]

\* A Block of a-b whose load has just started, in an application that has not
\* called configure().
ComponentInit ==
    /\ block = newBlock(IdAB)
    /\ config = NoConfig
    /\ info = NoInfo
    /\ authorBlock = newAuthorBlock

\* The registry after construction.
RegistryInit ==
    /\ registry = EmptyObject
    /\ authorRegistry = EmptyObject
    /\ lastFetched = 0
    /\ regOps = << >>
    /\ invalidated = FALSE

Init ==
    /\ cache = EmptyObject
    /\ loadingPromises = EmptyObject
    /\ serverUrl = DefaultServerUrl
    /\ episodes = << >>
    /\ calls = << >>
    /\ scripts = [u \in Urls |-> "none"]
    /\ window = [n \in Names |-> "absent"]
    /\ now = 0
    /\ RegistryInit
    /\ DocumentInit
    /\ ComponentInit

\* delete obj[key]
Delete(obj, key) == [k \in DOMAIN obj \ {key} |-> obj[k]]

\* obj[key] = value
Put(obj, key, value) == [k \in DOMAIN obj \cup {key} |-> IF k = key THEN value ELSE obj[k]]

----------------------------------------------------------------------------
(* loadModule *)

\* A loader whose window is 5 * 1000 ms: the factor 60 forgotten.
isFreshShort(entry, t) == t - entry.loadedAt < 5 * 1000

\* A loader that compares with <= instead of <.
isFreshInclusive(entry, t) == t - entry.loadedAt <= TTL

\* Date.now() - cached.loadedAt < 5 * 60 * 1000
isFresh(entry, t) == t - entry.loadedAt < TTL

\* A loader that returns whatever is cached, whatever its age.
cachedWhateverAge(X, t) == X \in DOMAIN cache

\* cached && Date.now() - cached.loadedAt < 5 * 60 * 1000
cachedAndFresh(X, t) == X \in DOMAIN cache /\ isFresh(cache[X], t)

\* A loader without the check of the loading promise.
alreadyLoadingNever(X) == FALSE

\* blockId in this.loadingPromises
alreadyLoading(X) == X \in DOMAIN loadingPromises

newCall(X, t, kind, ep, status, result, at) ==
    [ id     |-> X,
      kind   |-> kind,        \* "hit": served from the cache; "join": returned the
                              \* existing promise; "own": started _loadModuleInternal
      ep     |-> ep,          \* the episode whose promise it returns or awaits;
                              \* for a hit, the episode that cached the module
      t0     |-> t,           \* Date.now() at the call
      status |-> status,      \* "pending" or "settled"
      result |-> result,
      at     |-> at ]         \* for a hit: loadedAt of the entry it returned

\* A loadModule that deletes the entry it finds expired before reloading.
loadModuleEvicting(X, t) ==
    /\ Len(calls) < MaxCalls
    /\ clockReads(t)
    /\ now' = t
    /\ IF cachedAndFresh(X, t)
       THEN /\ calls' = Append(calls, newCall(X, t, "hit", cache[X].by, "settled",
                                              Ok(cache[X].component), cache[X].loadedAt))
            /\ UNCHANGED <<episodes, loadingPromises, cache>>
       ELSE IF alreadyLoading(X)
       THEN /\ calls' = Append(calls, newCall(X, t, "join", loadingPromises[X],
                                              "pending", Pending, -1))
            /\ UNCHANGED <<episodes, loadingPromises, cache>>
       ELSE /\ episodes' = Append(episodes, newEpisode(X))
            /\ loadingPromises' = Put(loadingPromises, X, Len(episodes) + 1)
            /\ calls' = Append(calls, newCall(X, t, "own", Len(episodes) + 1,
                                              "pending", Pending, -1))
            /\ cache' = Delete(cache, X)
    /\ UNCHANGED <<serverUrl, scripts, window>>

\* loadModule(blockId), up to its return or its await of the loading promise.
\* Starting _loadModuleInternal runs it up to its first await: the metadata
\* request is sent before loadModule suspends.  t is what Date.now() returns.
loadModule(X, t) ==
    /\ Len(calls) < MaxCalls
    /\ clockReads(t)
    /\ now' = t
    /\ IF cachedAndFresh(X, t)
       THEN /\ calls' = Append(calls, newCall(X, t, "hit", cache[X].by, "settled",
                                              Ok(cache[X].component), cache[X].loadedAt))
            /\ UNCHANGED <<episodes, loadingPromises>>
       ELSE IF alreadyLoading(X)
       THEN /\ calls' = Append(calls, newCall(X, t, "join", loadingPromises[X],
                                              "pending", Pending, -1))
            /\ UNCHANGED <<episodes, loadingPromises>>
       ELSE /\ episodes' = Append(episodes, newEpisode(X))
            /\ loadingPromises' = Put(loadingPromises, X, Len(episodes) + 1)
            /\ calls' = Append(calls, newCall(X, t, "own", Len(episodes) + 1,
                                              "pending", Pending, -1))
    /\ UNCHANGED <<cache, serverUrl, scripts, window>>

----------------------------------------------------------------------------
(* _loadModuleInternal *)

\* A catch block that throws a new error in place of the one it caught.
settleWrapped(e, o) ==
    [episodes EXCEPT ![e].pc = "settled",
                     ![e].outcome = IF o.kind = "ok" THEN o
                                    ELSE Fail("Failed to load federation module", o.detail)]

\* The promise of episode e is rejected with error o.
settle(e, o) == [episodes EXCEPT ![e].pc = "settled", ![e].outcome = o]

\* this.cache[blockId] = { component, loadedAt: Date.now(), federationUrl }
\* (by: the episode that writes, kept for the properties)
cacheWrite(X, e, m, t, fedUrl) ==
    Put(cache, X, [component |-> m, loadedAt |-> t, federationUrl |-> fedUrl, by |-> e])

\* Checks that leave out the build status.
metadataGateNoStatus(X, resp) ==
    IF resp.error THEN ErrMetadata
    ELSE IF resp.federationUrl = NoUrl THEN ErrNoUrl(X)
    ELSE Pending

\* What the checks on the metadata throw, Pending when they let the load go on.
metadataGate(X, resp) ==
    IF resp.error THEN ErrMetadata
    ELSE IF resp.federationUrl = NoUrl THEN ErrNoUrl(X)
    ELSE IF resp.buildStatus # "success" THEN ErrBuild(X, resp.buildStatus)
    ELSE Pending

\* A _loadScript that never looks for an existing tag.
existingScriptNever(u) == FALSE

\* The value the CSS string "${url}" denotes: a backslash escapes the
\* character after it, so the backslash is dropped and that character kept
\* (in the URLs of the model it is never a hexadecimal digit or a newline),
\* and every other token stands for itself.
RECURSIVE cssString(_)
cssString(u) ==
    IF u = << >> THEN << >>
    ELSE IF Head(u) = "\\"
    THEN IF Len(u) >= 2 THEN <<u[2]>> \o cssString(SubSeq(u, 3, Len(u))) ELSE << >>
    ELSE <<Head(u)>> \o cssString(Tail(u))

\* document.querySelector(`script[src="${url}"]`): an element whose src
\* attribute is the value the selector's string denotes.
existingScript(u) ==
    LET v == cssString(u) IN v \in DOMAIN scripts /\ scripts[v] # "none"

\* A _loadScript that, finding a tag, waits for the load event of that tag.
getBlockMetadataSettlesWaiting(e, resp) ==
    /\ episodes[e].pc = "meta"
    /\ LET X == episodes[e].id
           gate == metadataGate(X, resp)
           url == resolveFederationUrl(resp.federationUrl, serverUrl)
           withMeta == [episodes EXCEPT ![e].meta = resp]
       IN IF gate # Pending
          THEN /\ episodes' = [settle(e, gate) EXCEPT ![e].meta = resp]
               /\ UNCHANGED scripts
          ELSE IF existingScript(url)
          THEN /\ episodes' = [withMeta EXCEPT ![e].url = url, ![e].pc = "script"]
               /\ UNCHANGED scripts
          ELSE /\ episodes' = [withMeta EXCEPT ![e].url = url, ![e].pc = "script",
                                               ![e].injected = TRUE]
               /\ scripts' = [scripts EXCEPT ![url] = "loading"]
    /\ UNCHANGED <<cache, loadingPromises, serverUrl, calls, window, now>>

\* The metadata request of episode e settles with resp: the rest of
\* getBlockMetadata, then _loadModuleInternal up to await this._loadScript(url),
\* whose executor runs at once.
getBlockMetadataSettles(e, resp) ==
    /\ episodes[e].pc = "meta"
    /\ LET X == episodes[e].id
           gate == metadataGate(X, resp)
           url == resolveFederationUrl(resp.federationUrl, serverUrl)
           withMeta == [episodes EXCEPT ![e].meta = resp]
       IN IF gate # Pending
          THEN /\ episodes' = [settle(e, gate) EXCEPT ![e].meta = resp]
               /\ UNCHANGED scripts
          ELSE IF existingScript(url)
          THEN /\ episodes' = [withMeta EXCEPT ![e].url = url, ![e].pc = "loaded"]
               /\ UNCHANGED scripts
          ELSE /\ episodes' = [withMeta EXCEPT ![e].url = url, ![e].pc = "script",
                                               ![e].injected = TRUE]
               /\ scripts' = [scripts EXCEPT ![url] = "loading"]
    /\ UNCHANGED <<cache, loadingPromises, serverUrl, calls, window, now>>

\* The bundle at u executes and its tag fires onload: resolve() of the
\* _loadScript promise that appended the tag.
scriptOnload(u, pub) ==
    /\ scripts[u] = "loading"
    /\ scripts' = [scripts EXCEPT ![u] = "loaded"]
    /\ window' = IF pub = NoPublication THEN window
                 ELSE [window EXCEPT ![pub.name] = pub.container]
    /\ episodes' = [e \in DOMAIN episodes |->
                      IF episodes[e].pc = "script" /\ episodes[e].url = u
                      THEN [episodes[e] EXCEPT !.pc = "loaded"]
                      ELSE episodes[e]]
    /\ UNCHANGED <<cache, loadingPromises, serverUrl, calls, now>>

\* The tag of u fires onerror: reject() of the _loadScript promise that
\* appended it, rethrown by _loadModuleInternal.  The tag stays in the document.
scriptOnerror(u) ==
    /\ scripts[u] = "loading"
    /\ scripts' = [scripts EXCEPT ![u] = "error"]
    /\ episodes' = [e \in DOMAIN episodes |->
                      IF episodes[e].pc = "script" /\ episodes[e].url = u
                      THEN [episodes[e] EXCEPT !.pc = "settled", !.outcome = ErrScript(u)]
                      ELSE episodes[e]]
    /\ UNCHANGED <<cache, loadingPromises, serverUrl, calls, window, now>>

\* _extractModule from candidate i on, up to its next await or its throw;
\* the throw is rethrown by _loadModuleInternal.
extractFrom(e, i) ==
    LET X == episodes[e].id
        names == possibleNames(X)
        j == scanFrom(names, window, i)
    IN IF j > Len(names)
       THEN [settle(e, ErrNotFound(X)) EXCEPT ![e].searched = TRUE]
       ELSE [episodes EXCEPT ![e].pc = "get", ![e].idx = j,
                             ![e].got = window[names[j]], ![e].searched = TRUE]

\* The continuation after await this._loadScript(url): _extractModule starts.
extractModuleStart(e) ==
    /\ episodes[e].pc = "loaded"
    /\ episodes' = extractFrom(e, 1)
    /\ UNCHANGED <<cache, loadingPromises, serverUrl, calls, scripts, window, now>>

\* An _extractModule without the try/catch and the else branch: a get that
\* fails, or a module without a mount function, ends the search.
containerGetSettlesAborting(e, t) ==
    /\ episodes[e].pc = "get"
    /\ LET X == episodes[e].id
           c == episodes[e].got
       IN IF c \in Modules /\ hasMount(c)
          THEN /\ clockReads(t)
               /\ now' = t
               /\ cache' = cacheWrite(X, e, c, t, episodes[e].meta.federationUrl)
               /\ episodes' = [settle(e, Ok(c)) EXCEPT ![e].at = t]
          ELSE /\ t = now
               /\ episodes' = settle(e, ErrNotFound(X))
               /\ UNCHANGED <<cache, now>>
    /\ UNCHANGED <<loadingPromises, serverUrl, calls, scripts, window>>

\* container.get('./Block') of episode e settles: on a module with a mount
\* function _extractModule returns it and _loadModuleInternal caches it;
\* otherwise the loop goes on with the next candidate.  t is what Date.now()
\* returns for loadedAt.
containerGetSettles(e, t) ==
    /\ episodes[e].pc = "get"
    /\ LET X == episodes[e].id
           c == episodes[e].got
       IN IF c \in Modules /\ hasMount(c)
          THEN /\ clockReads(t)
               /\ now' = t
               /\ cache' = cacheWrite(X, e, c, t, episodes[e].meta.federationUrl)
               /\ episodes' = [settle(e, Ok(c)) EXCEPT ![e].at = t]
          ELSE /\ t = now
               /\ episodes' = extractFrom(e, episodes[e].idx + 1)
               /\ UNCHANGED <<cache, now>>
    /\ UNCHANGED <<loadingPromises, serverUrl, calls, scripts, window>>

----------------------------------------------------------------------------
(* The callers' continuations *)

\* The call that started episode e.
ownerOf(e) == CHOOSE c \in DOMAIN calls : calls[c].kind = "own" /\ calls[c].ep = e

\* A loader that deletes the loading promise after a successful await only,
\* not in a finally block.
loadModuleFinallyOnSuccess(c) ==
    /\ calls[c].kind = "own"
    /\ calls[c].status = "pending"
    /\ episodes[calls[c].ep].pc = "settled"
    /\ loadingPromises' = IF episodes[calls[c].ep].outcome.kind = "ok"
                          THEN Delete(loadingPromises, calls[c].id) ELSE loadingPromises
    /\ calls' = [calls EXCEPT ![c].status = "settled",
                              ![c].result = episodes[calls[c].ep].outcome]
    /\ UNCHANGED <<cache, episodes, serverUrl, scripts, window, now>>

\* A loader without the finally block.
loadModuleNoCleanup(c) ==
    /\ calls[c].kind = "own"
    /\ calls[c].status = "pending"
    /\ episodes[calls[c].ep].pc = "settled"
    /\ calls' = [calls EXCEPT ![c].status = "settled",
                              ![c].result = episodes[calls[c].ep].outcome]
    /\ UNCHANGED <<cache, loadingPromises, episodes, serverUrl, scripts, window, now>>

\* A finally block that empties the table of loading promises.
loadModuleFinallyAll(c) ==
    /\ calls[c].kind = "own"
    /\ calls[c].status = "pending"
    /\ episodes[calls[c].ep].pc = "settled"
    /\ loadingPromises' = EmptyObject
    /\ calls' = [calls EXCEPT ![c].status = "settled",
                              ![c].result = episodes[calls[c].ep].outcome]
    /\ episodes' = [episodes EXCEPT ![calls[c].ep].clearedInFlight = FALSE]
    /\ UNCHANGED <<cache, serverUrl, scripts, window, now>>

\* The continuation of loadModule after await this.loadingPromises[blockId]:
\* return or rethrow, and the finally block.
loadModuleFinally(c) ==
    /\ calls[c].kind = "own"
    /\ calls[c].status = "pending"
    /\ episodes[calls[c].ep].pc = "settled"
    /\ loadingPromises' = Delete(loadingPromises, calls[c].id)
    /\ calls' = [calls EXCEPT ![c].status = "settled",
                              ![c].result = episodes[calls[c].ep].outcome]
    /\ episodes' = [episodes EXCEPT ![calls[c].ep].clearedInFlight = FALSE]
    /\ UNCHANGED <<cache, serverUrl, scripts, window, now>>

\* The promise of a call that returned the existing loading promise adopts
\* its outcome.  Its reaction was registered after the owner's await, so it
\* runs after the owner's continuation.
joinerSettles(c) ==
    /\ calls[c].kind = "join"
    /\ calls[c].status = "pending"
    /\ episodes[calls[c].ep].pc = "settled"
    /\ calls[ownerOf(calls[c].ep)].status = "settled"
    /\ calls' = [calls EXCEPT ![c].status = "settled",
                              ![c].result = episodes[calls[c].ep].outcome]
    /\ UNCHANGED <<cache, loadingPromises, episodes, serverUrl, scripts, window, now>>

----------------------------------------------------------------------------
(* clearCache *)

\* The arguments of clearCache: an identifier, or none (undefined and ''
\* take the same branch).
NoArg == <<>>

\* What the properties keep of a clearCache call that covers the identifier
\* of episode e: that it came during the flight of e, or that it removed the
\* entry e wrote, before or after the caller of e resumed.
noteClear(e) ==
    LET X == episodes[e].id IN
    IF episodes[e].pc # "settled"
    THEN [episodes[e] EXCEPT !.clearedInFlight = TRUE]
    ELSE IF X \in DOMAIN cache /\ cache[X].by = e
    THEN [episodes[e] EXCEPT !.cleared = IF calls[ownerOf(e)].status = "settled"
                                         THEN "late" ELSE "early"]
    ELSE episodes[e]

\* A clearCache that drops the loading promises with the cache entries.
clearCacheAndPromises(arg) ==
    /\ cache' = IF arg # NoArg THEN Delete(cache, arg) ELSE EmptyObject
    /\ loadingPromises' = IF arg # NoArg THEN Delete(loadingPromises, arg) ELSE EmptyObject
    /\ episodes' = [e \in DOMAIN episodes |->
                      IF arg = NoArg \/ arg = episodes[e].id
                      THEN noteClear(e) ELSE episodes[e]]
    /\ UNCHANGED <<serverUrl, calls, scripts, window, now>>

\* clearCache(blockId?)
clearCache(arg) ==
    /\ cache' = IF arg # NoArg THEN Delete(cache, arg) ELSE EmptyObject
    /\ episodes' = [e \in DOMAIN episodes |->
                      IF arg = NoArg \/ arg = episodes[e].id
                      THEN noteClear(e) ELSE episodes[e]]
    /\ UNCHANGED <<loadingPromises, serverUrl, calls, scripts, window, now>>

----------------------------------------------------------------------------

Next ==
    /\ UNCHANGED <<regVars, docVars, uiVars>>
    /\ \/ \E X \in {IdAB} : \E t \in Times : loadModule(X, t)
       \/ \E e \in DOMAIN episodes : \E resp \in SomeResponses : getBlockMetadataSettles(e, resp)
       \/ \E u \in Urls : \E pub \in Publications : scriptOnload(u, pub)
       \/ \E u \in Urls : scriptOnerror(u)
       \/ \E e \in DOMAIN episodes : extractModuleStart(e)
       \/ \E e \in DOMAIN episodes : \E t \in Times : containerGetSettles(e, t)
       \/ \E c \in DOMAIN calls : loadModuleFinally(c)
       \/ \E c \in DOMAIN calls : joinerSettles(c)
       \/ \E arg \in Ids \cup {NoArg} : clearCache(arg)

Spec == Init /\ [][Next]_vars

\* Every metadata request is answered, every appended tag fires load or
\* error, every get settles, and the event loop runs every continuation that
\* is ready.
Fairness ==
    /\ \A e \in 1..MaxCalls :
           /\ WF_vars(/\ e \in DOMAIN episodes
                      /\ \E resp \in SomeResponses : getBlockMetadataSettles(e, resp)
                      /\ UNCHANGED <<regVars, docVars, uiVars>>)
           /\ WF_vars(/\ e \in DOMAIN episodes
                      /\ extractModuleStart(e)
                      /\ UNCHANGED <<regVars, docVars, uiVars>>)
           /\ WF_vars(/\ e \in DOMAIN episodes
                      /\ containerGetSettles(e, now)
                      /\ UNCHANGED <<regVars, docVars, uiVars>>)
    /\ \A u \in Urls :
           WF_vars(/\ \/ \E pub \in Publications : scriptOnload(u, pub)
                      \/ scriptOnerror(u)
                   /\ UNCHANGED <<regVars, docVars, uiVars>>)
    /\ \A c \in 1..MaxCalls :
           /\ WF_vars(/\ c \in DOMAIN calls
                      /\ loadModuleFinally(c)
                      /\ UNCHANGED <<regVars, docVars, uiVars>>)
           /\ WF_vars(/\ c \in DOMAIN calls
                      /\ joinerSettles(c)
                      /\ UNCHANGED <<regVars, docVars, uiVars>>)

\* The steps of Next with the clock standing still.
NextLive ==
    /\ UNCHANGED <<regVars, docVars, uiVars>>
    /\ \/ \E X \in {IdAB} : loadModule(X, now)
       \/ \E e \in DOMAIN episodes : \E resp \in SomeResponses : getBlockMetadataSettles(e, resp)
       \/ \E u \in Urls : \E pub \in Publications : scriptOnload(u, pub)
       \/ \E u \in Urls : scriptOnerror(u)
       \/ \E e \in DOMAIN episodes : extractModuleStart(e)
       \/ \E e \in DOMAIN episodes : containerGetSettles(e, now)
       \/ \E c \in DOMAIN calls : loadModuleFinally(c)
       \/ \E c \in DOMAIN calls : joinerSettles(c)
       \/ \E arg \in Ids \cup {NoArg} : clearCache(arg)

\* The loader on a page that answers.
SpecFair == Init /\ [][NextLive]_vars /\ Fairness

\* Both identifiers and every metadata response, with the clock standing still.
NextWide ==
    /\ UNCHANGED <<regVars, docVars, uiVars>>
    /\ \/ \E X \in Ids : Len(calls) < WideCalls /\ loadModule(X, now)
       \/ \E e \in DOMAIN episodes : \E resp \in MetaResponses : getBlockMetadataSettles(e, resp)
       \/ \E u \in Urls : \E pub \in Publications : scriptOnload(u, pub)
       \/ \E u \in Urls : scriptOnerror(u)
       \/ \E e \in DOMAIN episodes : extractModuleStart(e)
       \/ \E e \in DOMAIN episodes : containerGetSettles(e, now)
       \/ \E c \in DOMAIN calls : loadModuleFinally(c)
       \/ \E c \in DOMAIN calls : joinerSettles(c)
       \/ \E arg \in Ids \cup {NoArg} : clearCache(arg)

SpecWide == Init /\ [][NextWide]_vars

----------------------------------------------------------------------------
(* getCacheInfo *)

\* A getCacheInfo that hands out the cache object itself.
getCacheInfoAlias ==
    /\ info' = [op |-> "getCacheInfo", arg |-> NoArg, held |-> TRUE, same |-> TRUE,
                copy |-> cache]
    /\ UNCHANGED <<loaderVars, now>>

\* getCacheInfo(): return { ...this.cache }, a new object with the entries of
\* the cache.
getCacheInfo ==
    /\ info' = [op |-> "getCacheInfo", arg |-> NoArg, held |-> TRUE, same |-> FALSE,
                copy |-> cache]
    /\ UNCHANGED <<loaderVars, now>>

\* What a caller may store under a key of the object it was given.
StrayEntry == [component |-> "mNone", loadedAt |-> 0, by |-> 0]

\* The caller of getCacheInfo() adds a key to the object it was given, or
\* deletes one: the object changed is the loader's cache when the two are the
\* same object.
editInfo(X, add) ==
    LET obj == IF info.same THEN cache ELSE info.copy
        new == IF add THEN [k \in DOMAIN obj \cup {X} |-> IF k = X THEN StrayEntry ELSE obj[k]]
               ELSE Delete(obj, X)
    IN  /\ info.held
        /\ add = (X \notin DOMAIN obj)
        /\ info' = [info EXCEPT !.op = "edit", !.arg = X, !.copy = new]
        /\ cache' = IF info.same THEN new ELSE cache
        /\ UNCHANGED <<loadingPromises, serverUrl, episodes, calls, scripts, window, now>>

\* The debugging calls next to loads of both identifiers from a server whose
\* blocks are built, each step noted as the latest.
NextInfo ==
    /\ UNCHANGED <<regVars, docVars, block, config, authorBlock>>
    /\ \/ /\ info' = [info EXCEPT !.op = "load", !.arg = NoArg]
          /\ \/ \E X \in Ids : Len(calls) < WideCalls /\ loadModule(X, now)
             \/ \E e \in DOMAIN episodes : \E resp \in SomeResponses \ {MetaError} :
                    getBlockMetadataSettles(e, resp)
             \/ \E u \in Urls : \E pub \in Publications : scriptOnload(u, pub)
             \/ \E e \in DOMAIN episodes : extractModuleStart(e)
             \/ \E e \in DOMAIN episodes : containerGetSettles(e, now)
             \/ \E c \in DOMAIN calls : loadModuleFinally(c)
             \/ \E c \in DOMAIN calls : joinerSettles(c)
       \/ \E arg \in Ids \cup {NoArg} :
              clearCache(arg) /\ info' = [info EXCEPT !.op = "clearCache", !.arg = arg]
       \/ getCacheInfo
       \/ \E X \in Ids : \E add \in BOOLEAN : editInfo(X, add)

SpecInfo == Init /\ [][NextInfo]_vars

\* What the page may hold under a candidate name before the loader runs.
SearchContainers == {"absent", "noget", "badget", "rejects", "mMount", "mDefault", "mNone"}

\* A page whose global namespace was filled by other scripts.
InitSearch ==
    /\ cache = EmptyObject
    /\ loadingPromises = EmptyObject
    /\ serverUrl = DefaultServerUrl
    /\ episodes = << >>
    /\ calls = << >>
    /\ scripts = [u \in Urls |-> "none"]
    /\ window \in [Names -> SearchContainers]
    /\ now = 0
    /\ RegistryInit
    /\ DocumentInit
    /\ ComponentInit

\* One call of loadModule on that page; the bundle publishes nothing.
NextSearch ==
    /\ UNCHANGED <<regVars, docVars, uiVars>>
    /\ \/ \E X \in Ids : calls = << >> /\ loadModule(X, now)
       \/ \E e \in DOMAIN episodes : \E resp \in SomeResponses : getBlockMetadataSettles(e, resp)
       \/ \E u \in Urls : scriptOnload(u, NoPublication)
       \/ \E u \in Urls : scriptOnerror(u)
       \/ \E e \in DOMAIN episodes : extractModuleStart(e)
       \/ \E e \in DOMAIN episodes : containerGetSettles(e, now)
       \/ \E c \in DOMAIN calls : loadModuleFinally(c)

SpecSearch == InitSearch /\ [][NextSearch]_vars

\* What a page built from the webpack template may hold under a name.
LegacyContainers == {"absent", "rejects", "mNone", "mDefault"}

\* A page filled by other scripts before the loader runs.
InitLegacy ==
    /\ cache = EmptyObject
    /\ loadingPromises = EmptyObject
    /\ serverUrl = DefaultServerUrl
    /\ episodes = << >>
    /\ calls = << >>
    /\ scripts = [u \in Urls |-> "none"]
    /\ window \in [Names -> LegacyContainers]
    /\ now = 0
    /\ RegistryInit
    /\ DocumentInit
    /\ ComponentInit

\* Each identifier is loaded once on that page; the bundle publishes nothing.
NextLegacy ==
    /\ UNCHANGED <<regVars, docVars, uiVars>>
    /\ \/ \E X \in Ids : (\A c \in DOMAIN calls : calls[c].id # X) /\ loadModule(X, now)
       \/ \E e \in DOMAIN episodes : \E resp \in SomeResponses : getBlockMetadataSettles(e, resp)
       \/ \E u \in Urls : scriptOnload(u, NoPublication)
       \/ \E e \in DOMAIN episodes : extractModuleStart(e)
       \/ \E e \in DOMAIN episodes : containerGetSettles(e, now)
       \/ \E c \in DOMAIN calls : loadModuleFinally(c)

SpecLegacy == InitLegacy /\ [][NextLegacy]_vars

----------------------------------------------------------------------------
(* _loadScript on its own document *)

\* url as _loadModuleInternal may hand it to _loadScript: metadata.federationUrl
\* is whatever string the server sent.  The second has a backslash, the
\* third is the second without it.
BackslashUrl == <<"http", "s://cdn.mext.app/dist", "\\", "remoteEntry.js">>
JoinedUrl == <<"http", "s://cdn.mext.app/dist", "remoteEntry.js">>
ScriptUrls == {AbsoluteUrl, BackslashUrl, JoinedUrl}

\* document.querySelector(`script[src="${url}"]`) over the elements appended
existingTag(u) == \E k \in DOMAIN tags : tags[k].src = cssString(u)

\* _loadScript(u): the executor of the promise it returns runs at once.
loadScript(u) ==
    /\ Len(scriptCalls) < MaxScriptCalls
    /\ IF existingTag(u)
       THEN /\ scriptCalls' = Append(scriptCalls, [url |-> u, tag |-> 0, status |-> "resolved"])
            /\ UNCHANGED tags
       ELSE /\ tags' = Append(tags, [src |-> u, status |-> "loading"])
            /\ scriptCalls' = Append(scriptCalls,
                                     [url |-> u, tag |-> Len(tags) + 1, status |-> "pending"])

\* script.onload of element k: resolve()
tagOnload(k) ==
    /\ tags[k].status = "loading"
    /\ tags' = [tags EXCEPT ![k].status = "loaded"]
    /\ scriptCalls' = [c \in DOMAIN scriptCalls |->
                          IF scriptCalls[c].tag = k
                          THEN [scriptCalls[c] EXCEPT !.status = "resolved"]
                          ELSE scriptCalls[c]]

\* script.onerror of element k: reject(new Error(...)); the element stays
tagOnerror(k) ==
    /\ tags[k].status = "loading"
    /\ tags' = [tags EXCEPT ![k].status = "error"]
    /\ scriptCalls' = [c \in DOMAIN scriptCalls |->
                          IF scriptCalls[c].tag = k
                          THEN [scriptCalls[c] EXCEPT !.status = "rejected"]
                          ELSE scriptCalls[c]]

InitScript ==
    /\ cache = EmptyObject
    /\ loadingPromises = EmptyObject
    /\ serverUrl = DefaultServerUrl
    /\ episodes = << >>
    /\ calls = << >>
    /\ scripts = [u \in Urls |-> "none"]
    /\ window = [n \in Names |-> "absent"]
    /\ now = 0
    /\ RegistryInit
    /\ DocumentInit
    /\ ComponentInit

\* Calls of _loadScript, one for every load that passes the metadata checks,
\* and the load and error events of the elements.
NextScript ==
    /\ UNCHANGED <<loaderVars, regVars, uiVars, now>>
    /\ \/ \E u \in ScriptUrls : loadScript(u)
       \/ \E k \in DOMAIN tags : tagOnload(k)
       \/ \E k \in DOMAIN tags : tagOnerror(k)

SpecScript == InitScript /\ [][NextScript]_vars

----------------------------------------------------------------------------
(* The block registry (BlockRegistryManager) *)

\* cacheDuration = 5 * 60 * 1000
cacheDuration == 5 * 60 * 1000

\* A time of day: Date.now() counts from 1970, far more than cacheDuration ago.
Epoch == 2 * cacheDuration

\* The values Date.now() takes in the behaviours of the registry.
RegTimes == {Epoch, Epoch + cacheDuration, Epoch + cacheDuration + 1}

\* Date.now() may return t.
regClockReads(t) == t \in RegTimes /\ t >= now

\* Component names, authors and block identifiers.
ComponentNames == {"Chart", "Table"}
Authors == {"alice"}
BlockIds == {"abc123", "xyz789", "local1"}

\* The names callers resolve.
QueryNames == {"Chart"}

\* The entries addComponent is called with.
LocalBlockIds == {"local1"}

\* What axios.get of the registry settles with: a rejection, or
\* response.data, whose fields registry and authorRegistry the server may
\* leave out (has: the fields it sent).
RegError ==
    [ error |-> TRUE, has |-> {}, registry |-> EmptyObject, authorRegistry |-> EmptyObject ]
RegBoth ==
    [ error |-> FALSE, has |-> {"registry", "authorRegistry"},
      registry |-> [n \in {"Chart"} |-> "abc123"],
      authorRegistry |-> [a \in {"alice"} |-> [n \in {"Chart"} |-> "xyz789"]] ]
RegGlobalOnly ==
    [ error |-> FALSE, has |-> {"registry"},
      registry |-> [n \in {"Table"} |-> "xyz789"],
      authorRegistry |-> EmptyObject ]
RegAuthorOnly ==
    [ error |-> FALSE, has |-> {"authorRegistry"},
      registry |-> EmptyObject,
      authorRegistry |-> [a \in {"alice"} |-> [n \in {"Chart"} |-> "abc123"]] ]
RegResponses == {RegError, RegBoth, RegGlobalOnly, RegAuthorOnly}

\* A fetchRegistry that keeps the old mapping when the response leaves the
\* field out.
orKeep(resp, field) ==
    IF field \in resp.has
    THEN IF field = "registry" THEN resp.registry ELSE resp.authorRegistry
    ELSE IF field = "registry" THEN registry ELSE authorRegistry

\* response.data[field] || {}
orEmpty(resp, field) ==
    IF field \in resp.has
    THEN IF field = "registry" THEN resp.registry ELSE resp.authorRegistry
    ELSE EmptyObject

\* Object.keys(obj).length === 0
isEmpty(obj) == DOMAIN obj = {}

\* now - this.lastFetched > this.cacheDuration
isStale(t) == t - lastFetched > cacheDuration

\* A getRegistry that looks at the age only.
registryNeedsFetchByAge(t) == isStale(t)

\* the condition of getRegistry
registryNeedsFetch(t) == isStale(t) \/ isEmpty(registry)

\* the condition of getAuthorRegistry
authorRegistryNeedsFetch(t) == isStale(t) \/ isEmpty(authorRegistry)

\* The methods called: fetchRegistry, getBlockId, getAuthorBlockId,
\* getAvailableComponents.
RegKinds == {"refresh", "resolve", "resolveForAuthor", "list"}

NoBlock == "null"

\* A call of an async method of the registry: what it was called with, whether
\* it sent a registry request, and what it returned.
newRegOp(kind, author, name, t) ==
    [ kind    |-> kind,
      author  |-> author,
      name    |-> name,
      pc      |-> "called",   \* "fetching": await axios.get outstanding; "done"
      fetched |-> FALSE,      \* it called fetchRegistry
      failed  |-> FALSE,      \* its request was rejected
      result  |-> NoBlock,    \* what getBlockId / getAuthorBlockId returned
      keys    |-> {} ]        \* what getAvailableComponents returned

\* Methods that read the other mapping: getBlockId the entry of any author,
\* getAuthorBlockId the global entry.
answeredCrossed(op, reg, areg) ==
    [ op EXCEPT
        !.pc = "done",
        !.result = CASE op.kind = "resolve" ->
                            IF \E a \in DOMAIN areg : op.name \in DOMAIN areg[a]
                            THEN areg[CHOOSE a \in DOMAIN areg : op.name \in DOMAIN areg[a]][op.name]
                            ELSE NoBlock
                     [] op.kind = "resolveForAuthor" ->
                            IF op.name \in DOMAIN reg THEN reg[op.name] ELSE NoBlock
                     [] OTHER -> NoBlock,
        !.keys = IF op.kind = "list" THEN DOMAIN reg ELSE {} ]

\* What the method returns when it reads the mappings reg and areg: the
\* mappings as they are, or as fetchRegistry has just assigned them.
answered(op, reg, areg) ==
    [ op EXCEPT
        !.pc = "done",
        !.result = CASE op.kind = "resolve" ->
                            IF op.name \in DOMAIN reg THEN reg[op.name] ELSE NoBlock
                     [] op.kind = "resolveForAuthor" ->
                            IF op.author \in DOMAIN areg /\ op.name \in DOMAIN areg[op.author]
                            THEN areg[op.author][op.name] ELSE NoBlock
                     [] OTHER -> NoBlock,
        !.keys = IF op.kind = "list" THEN DOMAIN reg ELSE {} ]

\* Methods that send no request while one is outstanding.
needsFetchOnce(kind, t) ==
    /\ \A i \in DOMAIN regOps : regOps[i].pc # "fetching"
    /\ CASE kind = "refresh" -> TRUE
         [] kind = "resolveForAuthor" -> authorRegistryNeedsFetch(t)
         [] OTHER -> registryNeedsFetch(t)

\* Whether the method called at time t sends a registry request first.
needsFetch(kind, t) ==
    CASE kind = "refresh" -> TRUE
      [] kind = "resolveForAuthor" -> authorRegistryNeedsFetch(t)
      [] OTHER -> registryNeedsFetch(t)

\* fetchRegistry(), getBlockId(name), getAuthorBlockId(author, name) or
\* getAvailableComponents(), up to the await of axios.get or, without a
\* request, to its answer.  t is what Date.now() returns.
regCall(kind, author, name, t) ==
    /\ Len(regOps) < MaxRegOps
    /\ regClockReads(t)
    /\ now' = t
    /\ LET op == newRegOp(kind, author, name, t) IN
       IF needsFetch(kind, t)
       THEN regOps' = Append(regOps, [op EXCEPT !.pc = "fetching", !.fetched = TRUE])
       ELSE regOps' = Append(regOps, answered(op, registry, authorRegistry))
    /\ invalidated' = FALSE
    /\ UNCHANGED <<registry, authorRegistry, lastFetched>>

\* A fetchRegistry whose catch block empties the mappings.
fetchRegistrySettlesWiping(i, resp, t) ==
    /\ regOps[i].pc = "fetching"
    /\ UNCHANGED invalidated
    /\ IF resp.error
       THEN /\ t = now
            /\ registry' = EmptyObject
            /\ authorRegistry' = EmptyObject
            /\ UNCHANGED <<lastFetched, now>>
            /\ regOps' = [regOps EXCEPT
                            ![i] = [answered(regOps[i], EmptyObject, EmptyObject)
                                       EXCEPT !.failed = TRUE]]
       ELSE /\ regClockReads(t)
            /\ now' = t
            /\ registry' = orEmpty(resp, "registry")
            /\ authorRegistry' = orEmpty(resp, "authorRegistry")
            /\ lastFetched' = t
            /\ regOps' = [regOps EXCEPT
                            ![i] = answered(regOps[i], orEmpty(resp, "registry"),
                                            orEmpty(resp, "authorRegistry"))]

\* A fetchRegistry that drops the response of a request that was outstanding
\* when clearCache() was called.
fetchRegistrySettlesCancelled(i, resp, t) ==
    /\ regOps[i].pc = "fetching"
    /\ UNCHANGED invalidated
    /\ IF resp.error \/ invalidated
       THEN /\ t = now
            /\ UNCHANGED <<registry, authorRegistry, lastFetched, now>>
            /\ regOps' = [regOps EXCEPT
                            ![i] = [answered(regOps[i], registry, authorRegistry)
                                       EXCEPT !.failed = resp.error]]
       ELSE /\ regClockReads(t)
            /\ now' = t
            /\ registry' = orEmpty(resp, "registry")
            /\ authorRegistry' = orEmpty(resp, "authorRegistry")
            /\ lastFetched' = t
            /\ regOps' = [regOps EXCEPT
                            ![i] = answered(regOps[i], orEmpty(resp, "registry"),
                                            orEmpty(resp, "authorRegistry"))]

\* The registry request of call i settles with resp: the rest of
\* fetchRegistry and of the method that awaited it.  t is what Date.now()
\* returns for lastFetched.
fetchRegistrySettles(i, resp, t) ==
    /\ regOps[i].pc = "fetching"
    /\ UNCHANGED invalidated
    /\ IF resp.error
       THEN /\ t = now
            /\ UNCHANGED <<registry, authorRegistry, lastFetched, now>>
            /\ regOps' = [regOps EXCEPT
                            ![i] = [answered(regOps[i], registry, authorRegistry)
                                       EXCEPT !.failed = TRUE]]
       ELSE /\ regClockReads(t)
            /\ now' = t
            /\ registry' = orEmpty(resp, "registry")
            /\ authorRegistry' = orEmpty(resp, "authorRegistry")
            /\ lastFetched' = t
            /\ regOps' = [regOps EXCEPT
                            ![i] = answered(regOps[i], orEmpty(resp, "registry"),
                                            orEmpty(resp, "authorRegistry"))]

\* An addComponent that replaces the registry by the one entry.
addComponentAlone(name, blockId) ==
    /\ registry' = [n \in {name} |-> blockId]
    /\ UNCHANGED <<authorRegistry, lastFetched, regOps, invalidated, now>>

\* An addComponent that marks the registry as just fetched.
addComponentStamping(name, blockId) ==
    /\ registry' = Put(registry, name, blockId)
    /\ lastFetched' = now
    /\ UNCHANGED <<authorRegistry, regOps, invalidated, now>>

\* addComponent(componentName, entry)
addComponent(name, blockId) ==
    /\ registry' = Put(registry, name, blockId)
    /\ UNCHANGED <<authorRegistry, lastFetched, regOps, invalidated, now>>

\* clearCache() of the registry
registryClearCache ==
    /\ registry' = EmptyObject
    /\ authorRegistry' = EmptyObject
    /\ lastFetched' = 0
    /\ invalidated' = TRUE
    /\ UNCHANGED <<regOps, now>>

InitRegistry ==
    /\ cache = EmptyObject
    /\ loadingPromises = EmptyObject
    /\ serverUrl = DefaultServerUrl
    /\ episodes = << >>
    /\ calls = << >>
    /\ scripts = [u \in Urls |-> "none"]
    /\ window = [n \in Names |-> "absent"]
    /\ now = Epoch
    /\ RegistryInit
    /\ DocumentInit
    /\ ComponentInit

NextRegistry ==
    /\ UNCHANGED <<loaderVars, docVars, uiVars>>
    /\ \/ \E t \in RegTimes : regCall("refresh", "", "", t)
       \/ \E n \in QueryNames : \E t \in RegTimes : regCall("resolve", "", n, t)
       \/ \E a \in Authors : \E n \in QueryNames : \E t \in RegTimes :
              regCall("resolveForAuthor", a, n, t)
       \/ \E t \in RegTimes : regCall("list", "", "", t)
       \/ \E i \in DOMAIN regOps : \E resp \in RegResponses : \E t \in RegTimes :
              fetchRegistrySettles(i, resp, t)
       \/ \E n \in ComponentNames : \E b \in LocalBlockIds : addComponent(n, b)
       \/ registryClearCache

SpecRegistry == InitRegistry /\ [][NextRegistry]_vars

\* An application that registers its local components between its calls of
\* the registry, never while a request is outstanding.
NextLocal ==
    /\ UNCHANGED <<loaderVars, docVars, uiVars>>
    /\ \/ \E n \in QueryNames : \E t \in RegTimes : regCall("resolve", "", n, t)
       \/ \E t \in RegTimes : regCall("list", "", "", t)
       \/ \E i \in DOMAIN regOps : \E resp \in RegResponses : \E t \in RegTimes :
              fetchRegistrySettles(i, resp, t)
       \/ \E n \in ComponentNames : \E b \in LocalBlockIds :
              /\ \A i \in DOMAIN regOps : regOps[i].pc # "fetching"
              /\ addComponent(n, b)

SpecLocal == InitRegistry /\ [][NextLocal]_vars

----------------------------------------------------------------------------
(* configure *)

\* The objects the application passes to configure(): serverUrl and
\* cacheDuration, each given or left out.
Configs ==
    { [serverUrl |-> s, cacheDuration |-> d] :
          s \in {NoUrl, OtherServerUrl}, d \in {NoDuration, 1} }

\* The options given so far once cfg is passed.
given(cfg) ==
    [ serverUrl     |-> IF cfg.serverUrl # NoUrl THEN cfg.serverUrl ELSE config.serverUrl,
      cacheDuration |-> IF cfg.cacheDuration # NoDuration THEN cfg.cacheDuration
                        ELSE config.cacheDuration ]

\* A configure that does not pass the server on to the loader.
configureNothing(cfg) ==
    /\ config' = given(cfg)
    /\ UNCHANGED <<cache, loadingPromises, serverUrl, episodes, calls, scripts, window,
                   block, info, authorBlock, now>>

\* configure(cfg): federationLoader.setServerUrl(cfg.serverUrl) when the
\* option is given; cfg.cacheDuration is not read.
configure(cfg) ==
    /\ serverUrl' = IF cfg.serverUrl # NoUrl THEN cfg.serverUrl ELSE serverUrl
    /\ config' = given(cfg)
    /\ UNCHANGED <<cache, loadingPromises, episodes, calls, scripts, window, block,
                   info, authorBlock, now>>

\* Built blocks at a server-relative URL, at an absolute URL and at a path
\* that begins with http.
ConfigResponses ==
    { [error |-> FALSE, federationUrl |-> f, buildStatus |-> "success"] :
          f \in {RelativeUrl, AbsoluteUrl, HttpPathUrl} }

\* The bundle publishes the container of a-b.
ConfigPublication == [name |-> BlockPrefix \o <<"a", "b">>, container |-> "mMount"]

\* Loads of a-b in an application that calls configure() at any moment.
NextConfig ==
    /\ UNCHANGED <<regVars, docVars>>
    /\ \/ \E cfg \in Configs : configure(cfg)
       \/ \E t \in Times : Len(calls) < WideCalls /\ loadModule(IdAB, t) /\ UNCHANGED uiVars
       \/ \E e \in DOMAIN episodes : \E resp \in ConfigResponses :
              getBlockMetadataSettles(e, resp) /\ UNCHANGED uiVars
       \/ \E u \in Urls : scriptOnload(u, ConfigPublication) /\ UNCHANGED uiVars
       \/ \E e \in DOMAIN episodes : extractModuleStart(e) /\ UNCHANGED uiVars
       \/ \E e \in DOMAIN episodes : \E t \in Times :
              containerGetSettles(e, t) /\ UNCHANGED uiVars
       \/ \E c \in DOMAIN calls : loadModuleFinally(c) /\ UNCHANGED uiVars

SpecConfig == Init /\ [][NextConfig]_vars

----------------------------------------------------------------------------
(* The Block component (loadAndMount) *)

\* const maxRetries = 3
maxRetries == 3

\* const baseDelay = 500
baseDelay == 500

\* Math.pow(2, n)
RECURSIVE pow2(_)
pow2(n) == IF n = 0 THEN 1 ELSE 2 * pow2(n - 1)

\* error.message of the axios errors the model takes
AxiosMessages == { <<"Network Error">>, <<"t", " is not a function">> }

\* The messages of the errors loadModule rejects with
MsgMetadata(m) == <<"Failed to fetch block metadata: ">> \o m
MsgNoUrl(X) == <<"Block ">> \o X \o <<" does not have a federation URL">>
MsgBuild(X, b) == <<"Block ">> \o X \o <<" build status is ", b>>
MsgScript(u) == <<"Failed to load script: ">> \o u
MsgNotFound(X) ==
    <<"Federation ", "container not found", " for block ">> \o X \o <<". Tried: ">>
        \o possibleNames(X)[1] \o <<", ">> \o possibleNames(X)[2] \o <<", ">>
        \o possibleNames(X)[3] \o <<", ">> \o possibleNames(X)[4]

LoadFailures(X) ==
    { MsgMetadata(m) : m \in AxiosMessages }
        \cup { MsgNoUrl(X), MsgBuild(X, "failed"), MsgScript(AbsoluteUrl), MsgNotFound(X) }

\* What loadModule resolves with: a module _extractModule accepted.
LoadedModules == { m \in Modules : hasMount(m) }

\* message.includes(pattern)
includes(msg, pattern) ==
    \E i \in 1..(Len(msg) - Len(pattern) + 1) :
        SubSeq(msg, i, i + Len(pattern) - 1) = pattern

\* A check that takes every failure for transient.
isFederationErrorAlways(msg) == TRUE

\* const isFederationError = ...
isFederationError(msg) ==
    \/ includes(msg, <<"Federation ", "container not found">>)
    \/ includes(msg, <<"container not found">>)
    \/ includes(msg, <<" is not a function">>)

\* baseDelay * Math.pow(2, attempt - 1)
backoff(attempt) == baseDelay * pow2(attempt - 1)

\* await federationLoader.loadModule(blockId) resolves with module m: the
\* mount function is found, the WrapperComponent is set and rendered.
blockLoadResolves(m) ==
    /\ block.pc = "load"
    /\ block' = IF hasMount(m)
                THEN [block EXCEPT !.MountedComponent = TRUE, !.isLoading = FALSE,
                                   !.module = m, !.pc = "wrapper"]
                ELSE [block EXCEPT !.error = <<"Block ">> \o block.blockId
                                        \o <<" does not export a mount function">>,
                                   !.isLoading = FALSE,
                                   !.module = m,
                                   !.onError = @ + 1,
                                   !.pc = "done"]
    /\ UNCHANGED <<loaderVars, now>>

\* A catch block whose final failure sets the error and leaves the loading
\* flag up.
blockLoadRejectsLoading(msg) ==
    /\ block.pc = "load"
    /\ block' = IF isFederationError(msg) /\ block.attempt < maxRetries
                THEN [block EXCEPT !.pc = "wait", !.delay = backoff(block.attempt),
                                   !.failures = Append(@, msg)]
                ELSE [block EXCEPT !.error = msg,
                                   !.onError = @ + 1, !.pc = "done",
                                   !.failures = Append(@, msg)]
    /\ UNCHANGED <<loaderVars, now>>

\* await federationLoader.loadModule(blockId) rejects with an error of
\* message msg: the catch block of the for loop.
blockLoadRejects(msg) ==
    /\ block.pc = "load"
    /\ block' = IF isFederationError(msg) /\ block.attempt < maxRetries
                THEN [block EXCEPT !.pc = "wait", !.delay = backoff(block.attempt),
                                   !.failures = Append(@, msg)]
                ELSE [block EXCEPT !.error = msg, !.isLoading = FALSE,
                                   !.onError = @ + 1, !.pc = "done",
                                   !.failures = Append(@, msg)]
    /\ UNCHANGED <<loaderVars, now>>

\* The timer of the backoff fires: continue, the next attempt calls loadModule.
blockTimerFires ==
    /\ block.pc = "wait"
    /\ block' = [block EXCEPT !.waits = Append(@, block.delay), !.delay = 0,
                              !.attempt = @ + 1, !.loads = @ + 1, !.pc = "load"]
    /\ UNCHANGED <<loaderVars, now>>

\* A wrapper that drops the cache entry of a block whose mount threw.
wrapperEffectEvicting(throws) ==
    /\ block.pc = "wrapper"
    /\ block' = IF throws
                THEN [block EXCEPT !.onError = @ + 1, !.pc = "done"]
                ELSE [block EXCEPT !.mounted = TRUE, !.onLoad = @ + 1, !.pc = "done"]
    /\ cache' = IF throws THEN Delete(cache, block.blockId) ELSE cache
    /\ UNCHANGED <<loadingPromises, serverUrl, episodes, calls, scripts, window, now>>

\* The effect of the WrapperComponent: mountFunction(mountRef.current, props)
\* returns or throws.
wrapperEffect(throws) ==
    /\ block.pc = "wrapper"
    /\ block' = IF throws
                THEN [block EXCEPT !.onError = @ + 1, !.pc = "done"]
                ELSE [block EXCEPT !.mounted = TRUE, !.onLoad = @ + 1, !.pc = "done"]
    /\ UNCHANGED <<loaderVars, now>>

InitBlock ==
    /\ cache = EmptyObject
    /\ loadingPromises = EmptyObject
    /\ serverUrl = DefaultServerUrl
    /\ episodes = << >>
    /\ calls = << >>
    /\ scripts = [u \in Urls |-> "none"]
    /\ window = [n \in Names |-> "absent"]
    /\ now = 0
    /\ RegistryInit
    /\ DocumentInit
    /\ \E X \in Ids : block = newBlock(X)
    /\ config = NoConfig
    /\ info = NoInfo
    /\ authorBlock = newAuthorBlock

NextBlock ==
    /\ UNCHANGED <<regVars, docVars, config, info, authorBlock>>
    /\ \/ \E m \in LoadedModules : blockLoadResolves(m)
       \/ \E msg \in LoadFailures(block.blockId) : blockLoadRejects(msg)
       \/ blockTimerFires
       \/ \E throws \in BOOLEAN : wrapperEffect(throws)

SpecBlock == InitBlock /\ [][NextBlock]_vars

\* Every loadModule call of the run settles and every backoff timer fires.
BlockFairness ==
    /\ WF_vars(/\ \/ \E m \in LoadedModules : blockLoadResolves(m)
                  \/ \E msg \in LoadFailures(block.blockId) : blockLoadRejects(msg)
               /\ UNCHANGED <<regVars, docVars, config, info, authorBlock>>)
    /\ WF_vars(blockTimerFires /\ UNCHANGED <<regVars, docVars, config, info, authorBlock>>)

\* A Block whose loads settle.
SpecBlockFair == InitBlock /\ [][NextBlock]_vars /\ BlockFairness

\* A Block of a-b over the loader: the load the component awaits is one of
\* the loader's calls, next to loads of a-b from elsewhere in the application.
NextMount ==
    /\ UNCHANGED <<regVars, docVars, config, info, authorBlock>>
    /\ \/ \E t \in Times : loadModule(IdAB, t) /\ UNCHANGED block
       \/ \E e \in DOMAIN episodes : \E resp \in SomeResponses :
              getBlockMetadataSettles(e, resp) /\ UNCHANGED block
       \/ \E u \in Urls : \E pub \in Publications : scriptOnload(u, pub) /\ UNCHANGED block
       \/ \E u \in Urls : scriptOnerror(u) /\ UNCHANGED block
       \/ \E e \in DOMAIN episodes : extractModuleStart(e) /\ UNCHANGED block
       \/ \E e \in DOMAIN episodes : \E t \in Times :
              containerGetSettles(e, t) /\ UNCHANGED block
       \/ \E c \in DOMAIN calls : loadModuleFinally(c) /\ UNCHANGED block
       \/ \E c \in DOMAIN calls : joinerSettles(c) /\ UNCHANGED block
       \/ \E c \in DOMAIN calls :
              /\ calls[c].id = block.blockId
              /\ calls[c].status = "settled"
              /\ calls[c].result.kind = "ok"
              /\ blockLoadResolves(calls[c].result.val)
       \/ \E throws \in BOOLEAN : wrapperEffect(throws)

SpecMount == Init /\ [][NextMount]_vars

----------------------------------------------------------------------------
(* The AuthorBlock component (loadAuthorComponent) *)

\* The renders of the effect the model follows.
MaxRuns == 2

\* The props AuthorBlock is rendered with.
AuthorProps ==
    { [author |-> "alice", component |-> "Chart"],
      [author |-> "alice", component |-> "Table"] }

\* getAuthorBlockId returned null.
NoId == << >>

\* A run of the effect: its closure (author, component, isMounted) and the
\* await loadAuthorComponent is suspended at:
\*   "registry"  await blockRegistry.getAuthorBlockId(author, component)
\*   "load"      await federationLoader.loadModule(blockId)
\*   "meta"      await federationLoader.getBlockMetadata(blockId)
\*   "done"      it has returned
newRun(p) ==
    [ author    |-> p.author,
      component |-> p.component,
      isMounted |-> TRUE,
      pc        |-> "registry",
      blockId   |-> NoId,
      module    |-> "none",       \* what loadModule resolved with
      meta      |-> "none" ]      \* getBlockMetadata: "none", "ok" or "failed"

MsgNoComponent(a, c) ==
    <<"Component \"", c, "\" not found for author \"", a, "\"">>

\* The catch and the finally block of loadAuthorComponent for run r and an
\* error of message msg.
caught(r, msg) ==
    IF authorBlock.runs[r].isMounted
    THEN [authorBlock EXCEPT !.error = msg, !.loading = FALSE, !.runs[r].pc = "done"]
    ELSE [authorBlock EXCEPT !.runs[r].pc = "done"]

\* The effect of [author, component]: the cleanup of the run before sets its
\* isMounted to false, and loadAuthorComponent starts and runs up to its
\* first await.
authorEffect(p) ==
    /\ Len(authorBlock.runs) < MaxRuns
    /\ authorBlock.runs # << >> =>
           LET last == authorBlock.runs[Len(authorBlock.runs)] IN
           <<last.author, last.component>> # <<p.author, p.component>>
    /\ authorBlock' =
           [authorBlock EXCEPT
               !.loading = TRUE,
               !.error = << >>,
               !.runs = Append([r \in DOMAIN authorBlock.runs |->
                                   [authorBlock.runs[r] EXCEPT !.isMounted = FALSE]],
                               newRun(p))]

\* await blockRegistry.getAuthorBlockId(author, component) gives id, or null.
authorRegistryResolves(r, id) ==
    /\ authorBlock.runs[r].pc = "registry"
    /\ authorBlock' =
           IF id = NoId
           THEN caught(r, MsgNoComponent(authorBlock.runs[r].author,
                                         authorBlock.runs[r].component))
           ELSE [authorBlock EXCEPT !.runs[r].blockId = id, !.runs[r].pc = "load"]

\* await federationLoader.loadModule(blockId) resolves with module m.
authorLoadResolves(r, m) ==
    /\ authorBlock.runs[r].pc = "load"
    /\ authorBlock' =
           IF ~authorBlock.runs[r].isMounted
           THEN [authorBlock EXCEPT !.runs[r].module = m, !.runs[r].pc = "done"]
           ELSE IF ~hasMount(m)
           THEN [caught(r, <<"Block ">> \o authorBlock.runs[r].blockId
                              \o <<" does not export a mount function">>)
                    EXCEPT !.runs[r].module = m]
           ELSE [authorBlock EXCEPT !.runs[r].module = m, !.runs[r].pc = "meta"]

\* await federationLoader.loadModule(blockId) rejects.
authorLoadRejects(r, msg) ==
    /\ authorBlock.runs[r].pc = "load"
    /\ authorBlock' = caught(r, msg)

\* await federationLoader.getBlockMetadata(blockId) settles: on its answer
\* setBlockComponent and setMetadata, then the finally block; on its
\* rejection the catch and the finally block.
authorMetadataSettles(r, ok, msg) ==
    /\ authorBlock.runs[r].pc = "meta"
    /\ authorBlock' =
           IF ok
           THEN [authorBlock EXCEPT
                    !.BlockComponent = r,
                    !.metadata = r,
                    !.loading = IF authorBlock.runs[r].isMounted THEN FALSE ELSE @,
                    !.runs[r].meta = "ok",
                    !.runs[r].pc = "done"]
           ELSE [caught(r, MsgMetadata(msg)) EXCEPT !.runs[r].meta = "failed"]

NextAuthor ==
    /\ UNCHANGED <<loaderVars, regVars, docVars, block, config, info, now>>
    /\ \/ \E p \in AuthorProps : authorEffect(p)
       \/ \E r \in DOMAIN authorBlock.runs : \E id \in Ids \cup {NoId} :
              authorRegistryResolves(r, id)
       \/ \E r \in DOMAIN authorBlock.runs : \E m \in LoadedModules :
              authorLoadResolves(r, m)
       \/ \E r \in DOMAIN authorBlock.runs :
              \E msg \in LoadFailures(authorBlock.runs[r].blockId) :
                  authorLoadRejects(r, msg)
       \/ \E r \in DOMAIN authorBlock.runs : \E ok \in BOOLEAN : \E msg \in AxiosMessages :
              authorMetadataSettles(r, ok, msg)

SpecAuthor == Init /\ [][NextAuthor]_vars

----------------------------------------------------------------------------
(* Vocabulary of the properties *)

\* A step that is a call of loadModule, and the call it adds.
Issued == Len(calls') = Len(calls) + 1
NewCall == calls'[Len(calls')]

\* X has a cache entry younger than the TTL at time t.
ValidEntry(X, t) == X \in DOMAIN cache /\ t - cache[X].loadedAt < TTL

\* The calls that returned or awaited the promise of episode e.
CallersOf(e) == { c \in DOMAIN calls : calls[c].kind # "hit" /\ calls[c].ep = e }

\* The step starts no episode, sends no request and appends no script tag.
NoLoadActivity == episodes' = episodes /\ scripts' = scripts

----------------------------------------------------------------------------
(* C1 *)

\* Every call attached to an episode settles with that episode's outcome.
AttachedOutcome ==
    \A c \in DOMAIN calls :
        (calls[c].kind # "hit" /\ calls[c].status = "settled")
        => /\ episodes[calls[c].ep].pc = "settled"
           /\ calls[c].result = episodes[calls[c].ep].outcome

\* A call issued while the call that started a load of the same identifier
\* is unresolved, and with no valid cache entry, returns that load's promise
\* and causes no activity of its own.
C1_DedupStep ==
    Issued =>
        \A c1 \in DOMAIN calls :
            ( /\ calls[c1].id = NewCall.id
              /\ calls[c1].kind = "own"
              /\ calls[c1].status = "pending"
              /\ ~ValidEntry(NewCall.id, NewCall.t0) )
            => /\ NewCall.kind = "join"
               /\ NewCall.ep = calls[c1].ep
               /\ NoLoadActivity

\* An episode sends its metadata request when it starts and never again; it
\* appends a script tag only in the step that takes it from the request, and
\* enters the module search only in the step that follows its script.
C1_OnceStep ==
    \A e \in DOMAIN episodes :
        /\ episodes'[e].pc = "meta" => episodes[e].pc = "meta"
        /\ episodes'[e].pc = "script" => episodes[e].pc \in {"meta", "script"}
        /\ episodes'[e].pc = "loaded" => episodes[e].pc \in {"meta", "script", "loaded"}
        /\ episodes'[e].injected # episodes[e].injected
           => episodes[e].pc = "meta" /\ episodes'[e].pc = "script"
        /\ episodes'[e].searched # episodes[e].searched
           => episodes[e].pc = "loaded" /\ episodes'[e].pc \in {"get", "settled"}

\* C1 (amended): N load(X) calls, the first of which starts a load episode
\* and the others issued with no valid cache entry before that first call
\* resolves, cause exactly one metadata fetch (one episode), at most one
\* script injection and at most one module search, and all N calls settle
\* with the outcome of that one episode.
C1_Dedup == []AttachedOutcome /\ [][C1_DedupStep /\ C1_OnceStep]_vars

\* Three calls share one successful episode that injected its script.
C1_Witness ==
    \E e \in DOMAIN episodes :
        /\ Cardinality(CallersOf(e)) >= 3
        /\ \A c \in CallersOf(e) : calls[c].status = "settled" /\ calls[c].result.kind = "ok"
        /\ episodes[e].injected

\* C1 as stated: a group of calls (here already a group of one) causes
\* exactly one script injection and exactly one module search, and its
\* calls settle alike.
C1_Original ==
    \A c \in DOMAIN calls :
        (calls[c].kind = "own" /\ calls[c].status = "settled")
        => /\ episodes[calls[c].ep].injected
           /\ episodes[calls[c].ep].searched
           /\ \A d \in CallersOf(calls[c].ep) :
                  calls[d].status = "settled" => calls[d].result = calls[c].result

----------------------------------------------------------------------------
(* C2 *)

\* C2: the loading promise of X is present exactly while the call that
\* started its episode has not run its finally block; so at most one load of
\* X is in flight, and an episode of X starts only after the entry of every
\* earlier episode of X was removed.
C2_InFlightUnique ==
    /\ \A X \in DOMAIN loadingPromises :
           loadingPromises[X] \in DOMAIN episodes /\ episodes[loadingPromises[X]].id = X
    /\ \A e \in DOMAIN episodes :
           /\ Cardinality({ c \in DOMAIN calls : calls[c].kind = "own" /\ calls[c].ep = e }) = 1
           /\ (calls[ownerOf(e)].status = "pending")
                  <=> ( /\ episodes[e].id \in DOMAIN loadingPromises
                        /\ loadingPromises[episodes[e].id] = e )
           /\ episodes[e].pc # "settled" => calls[ownerOf(e)].status = "pending"
    /\ \A e1, e2 \in DOMAIN episodes :
           (e1 < e2 /\ episodes[e1].id = episodes[e2].id)
           => calls[ownerOf(e1)].status = "settled"

\* A second episode of the same identifier runs after the first one failed
\* and its entry was removed.
C2_Witness ==
    \E e1, e2 \in DOMAIN episodes :
        /\ e1 < e2
        /\ episodes[e1].id = episodes[e2].id
        /\ episodes[e1].outcome.kind \notin {"ok", "pending"}
        /\ episodes[e2].pc = "script"
        /\ loadingPromises[episodes[e2].id] = e2

----------------------------------------------------------------------------
(* C3, C4, C5 *)

\* The module a call returned was cached at some time: the call was served
\* from the cache, or its episode succeeded and wrote the cache.
WasCached(c) ==
    calls[c].kind = "hit" \/ episodes[calls[c].ep].outcome.kind = "ok"

\* loadedAt of the entry that module was cached in.
CachedAt(c) == IF calls[c].kind = "hit" THEN calls[c].at ELSE episodes[calls[c].ep].at

\* clearCache has removed that entry since.
ClearedSince(c) == episodes[calls[c].ep].cleared # "no"

\* The outcome the call settles with.
OutcomeOf(c) == IF calls[c].kind = "hit" THEN calls[c].result ELSE episodes[calls[c].ep].outcome

\* No call of the same identifier was issued after c.
LatestCallOf(c, X) ==
    calls[c].id = X /\ \A d \in DOMAIN calls : d > c => calls[d].id # X

C3_ReuseStep ==
    Issued =>
        \A c1 \in DOMAIN calls :
            calls[c1].id = NewCall.id =>
               /\ ( WasCached(c1) /\ ~ClearedSince(c1) /\ NewCall.t0 - CachedAt(c1) < TTL )
                  => /\ NewCall.kind = "hit"
                     /\ NewCall.result = OutcomeOf(c1)
                     /\ NoLoadActivity
               /\ ( calls[c1].kind # "hit" /\ episodes[calls[c1].ep].pc # "settled" )
                  => /\ NewCall.kind = "join"
                     /\ NewCall.ep = calls[c1].ep
                     /\ NoLoadActivity

\* C3 (amended): the TTL runs from the time the module was cached, not from
\* the time of the call.  For a load(X) call that returns a module cached at
\* time L (loadedAt) and a later load(X) call at time T1 with no clearCache
\* after L and before T1: if T1 - L < TTL the later call causes no metadata
\* fetch and no script injection and returns the same module handle; a later
\* call made while the earlier call's load is still running returns the
\* promise of that load.
C3_Reuse == [][C3_ReuseStep]_vars

\* A module cached at time 1 is returned from the cache at time TTL.
C3_Witness ==
    \E c1, c2 \in DOMAIN calls :
        /\ c1 < c2
        /\ calls[c1].kind = "own" /\ calls[c1].status = "settled"
        /\ calls[c2].kind = "hit"
        /\ calls[c2].at = episodes[calls[c1].ep].at
        /\ calls[c2].t0 - calls[c2].at = TTL - 1
        /\ calls[c2].result = calls[c1].result

\* C3 as stated: the window is measured from the time T0 of the earlier
\* call.  Stated for the later calls made while no load is in flight, and
\* for modules no clearCache has removed from the cache.
C3_Original ==
    [][ Issued =>
          \A c1 \in DOMAIN calls :
              ( /\ calls[c1].id = NewCall.id
                /\ NewCall.id \notin DOMAIN loadingPromises
                /\ calls[c1].status = "settled"
                /\ calls[c1].result.kind = "ok"
                /\ ~ClearedSince(c1)
                /\ NewCall.t0 - calls[c1].t0 < TTL )
              => /\ NoLoadActivity
                 /\ NewCall.kind = "hit"
                 /\ NewCall.result = calls[c1].result ]_vars

C4_ExpiryStep ==
    Issued =>
        \A c1 \in DOMAIN calls :
            ( /\ LatestCallOf(c1, NewCall.id)
              /\ WasCached(c1)
              /\ NewCall.t0 - CachedAt(c1) >= TTL )
            => /\ NewCall.kind # "hit"
               /\ NewCall.status = "pending"
               /\ IF NewCall.id \in DOMAIN loadingPromises
                  THEN NewCall.kind = "join" /\ NewCall.ep = loadingPromises[NewCall.id]
                  ELSE /\ NewCall.kind = "own"
                       /\ Len(episodes') = Len(episodes) + 1
                       /\ episodes'[NewCall.ep].id = NewCall.id
                       /\ episodes'[NewCall.ep].pc = "meta"

\* C4 (amended): the TTL runs from the time the module was cached.  For a
\* load(X) call that returns a module cached at time L (loadedAt) and the
\* next load(X) call, at time T1: if T1 - L >= TTL the later call is not
\* answered from the cache; it starts a fresh load cycle (a new metadata
\* fetch), unless a load of X is in flight, whose promise it returns.
C4_Expiry == [][C4_ExpiryStep]_vars

\* A module cached at time 0 is loaded again by the call made at time TTL.
C4_Witness ==
    \E c1, c2 \in DOMAIN calls :
        /\ c2 = c1 + 1
        /\ calls[c1].kind = "own" /\ calls[c1].result.kind = "ok"
        /\ episodes[calls[c1].ep].at = 0
        /\ calls[c2].kind = "own" /\ calls[c2].t0 = TTL
        /\ calls[c2].ep = calls[c1].ep + 1
        /\ episodes[calls[c2].ep].searched

\* C4 as stated: the window is measured from the time T0 of the earlier
\* call.  Stated for the later calls made while no load is in flight.
C4_Original ==
    [][ Issued =>
          \A c1 \in DOMAIN calls :
              ( /\ calls[c1].id = NewCall.id
                /\ NewCall.id \notin DOMAIN loadingPromises
                /\ calls[c1].status = "settled"
                /\ calls[c1].result.kind = "ok"
                /\ NewCall.t0 - calls[c1].t0 >= TTL )
              => NewCall.kind = "own" ]_vars

C5_ReuseIffStep ==
    Issued =>
        LET X == NewCall.id IN
        IF X \in DOMAIN cache /\ NewCall.t0 - cache[X].loadedAt < TTL
        THEN /\ NewCall.kind = "hit"
             /\ NewCall.status = "settled"
             /\ NewCall.result = Ok(cache[X].component)
             /\ NoLoadActivity
             /\ loadingPromises' = loadingPromises
        ELSE /\ NewCall.kind # "hit"
             /\ NewCall.status = "pending"
             /\ X \in DOMAIN loadingPromises'
             /\ NewCall.ep = loadingPromises'[X]
             /\ NewCall.kind = "own" <=> X \notin DOMAIN loadingPromises
             /\ NewCall.kind = "own" => episodes'[NewCall.ep].pc = "meta"
             /\ cache' = cache

\* C5: load(X) answers from the cache exactly when X has an entry with
\* now - loadedAt < TTL, and then without a metadata request, a script tag or
\* a loading promise; with now - loadedAt >= TTL, equality included, it does
\* what it does without an entry: it starts a load, or joins the one in flight.
C5_ReuseIff == [][C5_ReuseIffStep]_vars

\* A call made exactly TTL after loadedAt started a load; the expired entry
\* is still in the cache.
C5_Witness ==
    \E c \in DOMAIN calls :
        /\ calls[c].kind = "own"
        /\ calls[c].id \in DOMAIN cache
        /\ calls[c].t0 - cache[calls[c].id].loadedAt = TTL
        /\ episodes[calls[c].ep].pc = "meta"

----------------------------------------------------------------------------
(* C6 *)

\* Metadata the checks must stop: the request failed, no federationUrl, or a
\* buildStatus of pending, building or failed.
GateStops(m) ==
    \/ m.error
    \/ m.federationUrl = NoUrl
    \/ m.buildStatus \in {"pending", "building", "failed"}

\* An outcome that is a rejection.
IsFailure(o) == o.kind \notin {"ok", "pending"}

\* The step at which such metadata arrives rejects the load and touches
\* neither the document nor the cache.
C6_GateStep ==
    \A e \in DOMAIN episodes :
        ( /\ episodes[e].pc = "meta"
          /\ episodes'[e].pc # "meta"
          /\ GateStops(episodes'[e].meta) )
        => /\ episodes'[e].pc = "settled"
           /\ IsFailure(episodes'[e].outcome)
           /\ scripts' = scripts
           /\ cache' = cache

\* A load that got such metadata stays rejected, never appended a script
\* tag, never searched for a module and wrote no cache entry, and its callers
\* get the rejection.
C6_GateInv ==
    \A e \in DOMAIN episodes :
        (episodes[e].pc # "meta" /\ GateStops(episodes[e].meta))
        => /\ episodes[e].pc = "settled"
           /\ IsFailure(episodes[e].outcome)
           /\ ~episodes[e].injected
           /\ ~episodes[e].searched
           /\ episodes[e].at = -1
           /\ \A X \in DOMAIN cache : cache[X].by # e
           /\ \A c \in CallersOf(e) :
                  calls[c].status = "settled" => calls[c].result = episodes[e].outcome

\* C6: when the metadata fetch for X errors, or the metadata has no
\* federationUrl, or its buildStatus is pending, building or failed, load(X)
\* fails without a script injection, without a module search and without
\* writing a cache entry for X.
C6_Gate == []C6_GateInv /\ [][C6_GateStep]_vars

\* A block still building: its load was rejected with the build status, the
\* document has no script tag and the cache no entry.
C6_Witness ==
    \E e \in DOMAIN episodes :
        /\ episodes[e].meta.buildStatus = "building"
        /\ episodes[e].meta.federationUrl = RelativeUrl
        /\ episodes[e].outcome = ErrBuild(episodes[e].id, "building")
        /\ calls[ownerOf(e)].status = "settled"
        /\ calls[ownerOf(e)].result = episodes[e].outcome
        /\ \A u \in Urls : scripts[u] = "none"
        /\ cache = EmptyObject

----------------------------------------------------------------------------
(* C7 *)

\* clearCache removed a cached module of X after the load that cached it had
\* returned, and X has not been cached again.
ClearedAfterLoad(X) ==
    /\ X \notin DOMAIN cache
    /\ \E e \in DOMAIN episodes : episodes[e].id = X /\ episodes[e].cleared = "late"

\* The next call is not answered from the cache: it starts a load with a new
\* metadata request, or returns the promise of the load in flight.
C7_NextLoadStep ==
    (Issued /\ ClearedAfterLoad(NewCall.id))
    => /\ NewCall.kind # "hit"
       /\ NewCall.status = "pending"
       /\ IF NewCall.id \in DOMAIN loadingPromises
          THEN /\ NewCall.kind = "join"
               /\ NewCall.ep = loadingPromises[NewCall.id]
               /\ NoLoadActivity
          ELSE /\ NewCall.kind = "own"
               /\ Len(episodes') = Len(episodes) + 1
               /\ NewCall.ep = Len(episodes')
               /\ episodes'[NewCall.ep].id = NewCall.id
               /\ episodes'[NewCall.ep].pc = "meta"

\* A load whose metadata passed the checks appends a script tag exactly when
\* the document has none for the resolved URL; with a tag there it leaves the
\* document alone and goes on to the module search.
C7_InjectStep ==
    \A e \in DOMAIN episodes :
        (episodes[e].pc = "meta" /\ episodes'[e].pc \in {"script", "loaded"})
        => LET u == episodes'[e].url IN
           /\ u \in Urls
           /\ episodes'[e].injected <=> scripts[u] = "none"
           /\ IF scripts[u] = "none"
              THEN scripts' = [scripts EXCEPT ![u] = "loading"] /\ episodes'[e].pc = "script"
              ELSE scripts' = scripts /\ episodes'[e].pc = "loaded"

NextCallAfter(c1, c2) ==
    /\ c1 < c2
    /\ calls[c1].id = calls[c2].id
    /\ \A d \in DOMAIN calls : (c1 < d /\ d < c2) => calls[d].id # calls[c1].id

----------------------------------------------------------------------------
(* C8 *)

\* Episode e was rejected and its caller has run its catch and finally.
FailedAndDelivered(e) ==
    /\ episodes[e].pc = "settled"
    /\ IsFailure(episodes[e].outcome)
    /\ calls[ownerOf(e)].status = "settled"

\* No later episode of the identifier of e has started.
LatestEpisode(e) ==
    \A e2 \in DOMAIN episodes : e2 > e => episodes[e2].id # episodes[e].id

\* The entry of a delivered failure is gone, and what the cache holds was
\* written by an episode that succeeded.
C8_FailureInv ==
    /\ \A e \in DOMAIN episodes :
           FailedAndDelivered(e)
           => ~( /\ episodes[e].id \in DOMAIN loadingPromises
                 /\ loadingPromises[episodes[e].id] = e )
    /\ \A e \in DOMAIN episodes : IsFailure(episodes[e].outcome) => episodes[e].at = -1
    /\ \A X \in DOMAIN cache :
           /\ episodes[cache[X].by].id = X
           /\ episodes[cache[X].by].outcome = Ok(cache[X].component)

\* A call issued after the delivery is never attached to the failed episode;
\* when that episode is the latest of its identifier the call starts a new
\* one, which sends a new metadata request.
C8_RetryStep ==
    Issued =>
        \A e \in DOMAIN episodes :
            (episodes[e].id = NewCall.id /\ FailedAndDelivered(e))
            => /\ NewCall.ep # e
               /\ LatestEpisode(e)
                  => /\ NewCall.kind = "own"
                     /\ NewCall.status = "pending"
                     /\ Len(episodes') = Len(episodes) + 1
                     /\ NewCall.ep = Len(episodes')
                     /\ episodes'[NewCall.ep].id = NewCall.id
                     /\ episodes'[NewCall.ep].pc = "meta"
                     /\ episodes'[NewCall.ep].outcome = Pending

\* C8: a failed load episode for X removes X's in-flight entry, so that the
\* next load(X) issued after the failure was delivered starts a new episode
\* with a new metadata fetch; the failure is never cached and never replayed
\* to calls issued after cleanup.
C8_FailureNotSticky == []C8_FailureInv /\ [][C8_RetryStep]_vars

\* The call after a delivered failure started a second episode, which
\* succeeded.
C8_Witness ==
    \E c1, c2 \in DOMAIN calls :
        /\ c2 = c1 + 1
        /\ calls[c1].id = calls[c2].id
        /\ calls[c1].kind = "own" /\ calls[c1].status = "settled"
        /\ IsFailure(calls[c1].result)
        /\ calls[c2].kind = "own" /\ calls[c2].ep = calls[c1].ep + 1
        /\ calls[c2].status = "settled"
        /\ calls[c2].result.kind = "ok"

----------------------------------------------------------------------------
(* C9 *)

\* What _loadModuleInternal has done and will do next.
Progress(ep) == <<ep.id, ep.pc, ep.meta, ep.url, ep.idx, ep.got, ep.outcome, ep.at>>

\* The step is a clearCache call that removed an entry or came during a load.
ClearStep ==
    \/ DOMAIN cache' # DOMAIN cache /\ DOMAIN cache' \subseteq DOMAIN cache
    \/ \E e \in DOMAIN episodes : ~episodes[e].clearedInFlight /\ episodes'[e].clearedInFlight

\* clearCache leaves the loading promises, the loads and their callers as
\* they were.
C9_ClearStep ==
    ClearStep
    => /\ loadingPromises' = loadingPromises
       /\ calls' = calls
       /\ scripts' = scripts
       /\ DOMAIN episodes' = DOMAIN episodes
       /\ \A e \in DOMAIN episodes : Progress(episodes'[e]) = Progress(episodes[e])

\* A load that succeeds writes its cache entry, cleared in flight or not.
C9_WriteStep ==
    \A e \in DOMAIN episodes :
        (episodes[e].pc # "settled" /\ episodes'[e].pc = "settled" /\ episodes'[e].outcome.kind = "ok")
        => /\ episodes[e].id \in DOMAIN cache'
           /\ cache'[episodes[e].id].by = e
           /\ cache'[episodes[e].id].component = episodes'[e].outcome.val
           /\ cache'[episodes[e].id].loadedAt = episodes'[e].at

\* While a load cleared in flight has not been delivered, its loading
\* promise is in place.
C9_InFlightInv ==
    \A e \in DOMAIN episodes :
        episodes[e].clearedInFlight
        => /\ episodes[e].id \in DOMAIN loadingPromises
           /\ loadingPromises[episodes[e].id] = e
           /\ calls[ownerOf(e)].status = "pending"

\* C9: clearCache(X) or clearCache() called while a load of X is in flight
\* does not cancel it and does not remove the in-flight entry: the load goes
\* on and, on success, writes a cache entry for X after the clear, whoever is
\* still waiting for it.
C9_ClearKeepsLoad == []C9_InFlightInv /\ [][C9_ClearStep /\ C9_WriteStep]_vars

\* A load cleared in flight has succeeded and its entry is in the cache.
C9_Witness ==
    \E e \in DOMAIN episodes :
        /\ episodes[e].clearedInFlight
        /\ episodes[e].outcome.kind = "ok"
        /\ episodes[e].id \in DOMAIN cache
        /\ cache[episodes[e].id].by = e

----------------------------------------------------------------------------
(* C10 *)

\* The candidate names as the claim lists them.
CandidateNames(X) ==
    << X, StripNonAlnum(X), <<"b", "l", "o", "c", "k">> \o StripNonAlnum(X), ThreeScene >>

\* The global object under name n has a get capability and its './Block'
\* module exposes a mount function, directly or under default.
Usable(n) ==
    /\ window[n] \in Modules
    /\ \/ Exports(window[n]).mount = "function"
       \/ Exports(window[n]).default /\ Exports(window[n]).defaultMount = "function"

\* The position of the first usable candidate, 0 when there is none.
FirstUsable(X) ==
    LET N == CandidateNames(X)
        S == { i \in DOMAIN N : Usable(N[i]) }
    IN IF S = {} THEN 0 ELSE CHOOSE i \in S : \A j \in S : i <= j

\* A search never passes a usable candidate; it ends with the module of the
\* first usable candidate, or with the error that lists the names when there
\* is none; the caller gets what the search ended with.
C10_SearchInv ==
    \A e \in DOMAIN episodes :
        episodes[e].searched
        => LET X == episodes[e].id
               N == CandidateNames(X)
               f == FirstUsable(X)
           IN /\ episodes[e].pc \in {"get", "settled"}
              /\ episodes[e].pc = "get"
                 => /\ episodes[e].idx \in DOMAIN N
                    /\ episodes[e].got = window[N[episodes[e].idx]]
                    /\ f # 0
                       => /\ episodes[e].idx <= f
                          /\ episodes[e].idx = f => episodes[e].got = window[N[f]]
              /\ episodes[e].pc = "settled"
                 => /\ f # 0 => episodes[e].outcome = Ok(window[N[f]])
                    /\ f = 0 => /\ episodes[e].outcome.kind = "Federation container not found"
                                /\ episodes[e].outcome.detail = <<X>> \o N
              /\ calls[ownerOf(e)].status = "settled"
                 => calls[ownerOf(e)].result = episodes[e].outcome

\* The candidates are tried in the order of the list.
C10_OrderStep ==
    \A e \in DOMAIN episodes :
        (episodes[e].pc = "get" /\ episodes'[e].pc = "get")
        => episodes'[e].idx > episodes[e].idx

\* C10: the module search for X tries the names [X, X with non-alphanumerics
\* stripped, 'block' + stripped X, 'threescene'] in that order and returns
\* the module of the first name whose global object has a get capability and
\* whose './Block' module exposes a mount function (directly or under
\* default); when only the third name exposes a container, load(X) succeeds
\* with that container and no error reaches the caller.
C10_SearchOrder == []C10_SearchInv /\ [][C10_OrderStep]_vars

\* Only the third candidate name holds a container: the load succeeded with
\* its module.
C10_Witness ==
    \E e \in DOMAIN episodes :
        /\ episodes[e].id = IdAB
        /\ window[<<"a", "-", "b">>] = "absent"
        /\ window[<<"a", "b">>] = "absent"
        /\ window[<<"b", "l", "o", "c", "k", "a", "b">>] = "mDefault"
        /\ window[ThreeScene] = "absent"
        /\ episodes[e].outcome = Ok("mDefault")
        /\ calls[ownerOf(e)].status = "settled"
        /\ calls[ownerOf(e)].result = Ok("mDefault")

----------------------------------------------------------------------------
(* C11 *)

\* The global object under name n is one whose get the search calls and awaits.
HasGet(n) == window[n] \in {"rejects"} \cup Modules

\* The candidates after position i whose get the search calls.
LaterWithGet(X, i) ==
    { j \in DOMAIN CandidateNames(X) : j > i /\ HasGet(CandidateNames(X)[j]) }

\* The error that names the identifier and every candidate tried.
NotFoundError(X) ==
    [ kind |-> "Federation container not found", val |-> "",
      detail |-> <<X>> \o CandidateNames(X) ]

\* A get that fails, or a module without a mount function, sends the search
\* on to the next candidate with a get; the search ends in failure only when
\* no such candidate is left.
C11_GoOnStep ==
    \A e \in DOMAIN episodes :
        ( /\ episodes[e].pc = "get"
          /\ episodes'[e] # episodes[e]
          /\ ~Usable(CandidateNames(episodes[e].id)[episodes[e].idx]) )
        => LET X == episodes[e].id
               L == LaterWithGet(X, episodes[e].idx)
           IN IF L = {}
              THEN /\ episodes'[e].pc = "settled"
                   /\ episodes'[e].outcome = NotFoundError(X)
              ELSE /\ episodes'[e].pc = "get"
                   /\ episodes'[e].idx \in L
                   /\ \A j \in L : episodes'[e].idx <= j

\* With no usable candidate the search, once over, has failed with the error
\* that lists the names, and that error is what the caller gets.
C11_NotFoundInv ==
    \A e \in DOMAIN episodes :
        (episodes[e].searched /\ episodes[e].pc = "settled" /\ FirstUsable(episodes[e].id) = 0)
        => /\ episodes[e].outcome = NotFoundError(episodes[e].id)
           /\ calls[ownerOf(e)].status = "settled"
              => calls[ownerOf(e)].result = NotFoundError(episodes[e].id)

\* C11: when no candidate name yields a module with a mount capability (no
\* container, get fails, or the module has no mount function), load(X) fails
\* with an error whose message names every candidate tried, and a candidate
\* whose get fails or whose module lacks mount never aborts the search of the
\* remaining candidates.
C11_SearchFails == []C11_NotFoundInv /\ [][C11_GoOnStep]_vars

\* The first candidate's get rejected, the second gave a module without
\* mount, the third has a get that is no function, the fourth has no get: the
\* caller got the error listing all four names.
C11_Witness ==
    \E e \in DOMAIN episodes :
        /\ episodes[e].id = IdAB
        /\ window[<<"a", "-", "b">>] = "rejects"
        /\ window[<<"a", "b">>] = "mNone"
        /\ window[<<"b", "l", "o", "c", "k", "a", "b">>] = "badget"
        /\ window[ThreeScene] = "noget"
        /\ episodes[e].searched
        /\ calls[ownerOf(e)].status = "settled"
        /\ calls[ownerOf(e)].result = NotFoundError(IdAB)

\* ---------------------------------------------------------------------------
\* Vocabulary of the registry properties
\* ---------------------------------------------------------------------------

\* The step issues a call of one of the registry's async methods.
IssuedOp == Len(regOps') = Len(regOps) + 1

NewOp == regOps'[Len(regOps')]

\* The step is the settlement of call i's registry request.
Completes(i) == regOps[i].pc = "fetching" /\ regOps'[i].pc = "done"

\* What the global mapping reg holds for name.
GlobalEntry(reg, name) == IF name \in DOMAIN reg THEN reg[name] ELSE NoBlock

\* What the author-scoped mapping areg holds at (author, name).
AuthorEntry(areg, author, name) ==
    IF author \in DOMAIN areg /\ name \in DOMAIN areg[author]
    THEN areg[author][name]
    ELSE NoBlock

\* ---------------------------------------------------------------------------
\* C12
\* ---------------------------------------------------------------------------

\* The settlement of a rejected registry request changes nothing and the
\* method that awaited it answers from the mappings as they are.
C12_FailStep ==
    \A i \in DOMAIN regOps :
        (Completes(i) /\ regOps'[i].failed)
        => /\ registry' = registry
           /\ authorRegistry' = authorRegistry
           /\ lastFetched' = lastFetched
           /\ regOps'[i].kind = "resolve"
              => regOps'[i].result = GlobalEntry(registry, regOps[i].name)
           /\ regOps'[i].kind = "resolveForAuthor"
              => regOps'[i].result =
                    AuthorEntry(authorRegistry, regOps[i].author, regOps[i].name)
           /\ regOps'[i].kind = "list" => regOps'[i].keys = DOMAIN registry

\* C12: a refresh that fails at the network or server layer leaves the global
\* mapping, the author-scoped mapping and the last-fetched timestamp unchanged
\* and does not raise to the caller, which is answered from the mappings it
\* has: after a successful fetch containing Chart -> abc123, a resolve("Chart")
\* whose refresh fails returns abc123.
C12_Fallback == [][C12_FailStep]_vars

\* A refresh succeeded with Chart -> abc123; later than the cache duration a
\* resolve("Chart") ran its own refresh, which failed, and returned abc123.
C12_Witness ==
    /\ Len(regOps) = 2
    /\ regOps[1].kind = "refresh" /\ regOps[1].pc = "done" /\ ~regOps[1].failed
    /\ regOps[2].kind = "resolve" /\ regOps[2].name = "Chart"
    /\ regOps[2].fetched /\ regOps[2].failed /\ regOps[2].pc = "done"
    /\ regOps[2].result = "abc123"
    /\ lastFetched = Epoch
    /\ now > Epoch + cacheDuration

\* ---------------------------------------------------------------------------
\* C13
\* ---------------------------------------------------------------------------

\* The mappings and timestamp a successful response resp leaves at time t.
Replaced(resp, t) ==
    /\ registry' = IF "registry" \in resp.has THEN resp.registry ELSE EmptyObject
    /\ authorRegistry' =
           IF "authorRegistry" \in resp.has THEN resp.authorRegistry ELSE EmptyObject
    /\ lastFetched' = t

\* The settlement of a successful registry request leaves, in that one step,
\* both mappings equal to those of one response and the timestamp equal to the
\* clock reading; any other step that changes the author-scoped mapping or the
\* timestamp is a clearCache().
C13_ReplaceStep ==
    /\ \A i \in DOMAIN regOps :
           (Completes(i) /\ ~regOps'[i].failed)
           => \E resp \in RegResponses : ~resp.error /\ Replaced(resp, now')
    /\ (authorRegistry' # authorRegistry \/ lastFetched' # lastFetched)
       => \/ \E i \in DOMAIN regOps : Completes(i) /\ ~regOps'[i].failed
          \/ registry' = EmptyObject /\ authorRegistry' = EmptyObject /\ lastFetched' = 0

\* C13: a successful refresh replaces both mappings wholesale and sets the
\* last-fetched timestamp in one atomic step, so that no operation observes
\* the new global mapping with the old author mapping or timestamp; after it
\* the mappings hold exactly the entries of that response, and no entry of the
\* previous mappings (those added by registerLocal included) survives unless
\* the response contains it.
C13_Replace == [][C13_ReplaceStep]_vars

\* A resolve("Chart") got abc123 from a first response; a later refresh got a
\* response with the global mapping {Table} alone: Chart is gone from the
\* global mapping and the author-scoped mapping is empty.
C13_Witness ==
    /\ Len(regOps) = 2
    /\ regOps[1].kind = "resolve" /\ regOps[1].result = "abc123"
    /\ regOps[2].kind = "refresh" /\ regOps[2].pc = "done" /\ ~regOps[2].failed
    /\ registry = RegGlobalOnly.registry
    /\ authorRegistry = EmptyObject
    /\ lastFetched = Epoch + cacheDuration

\* ---------------------------------------------------------------------------
\* C14
\* ---------------------------------------------------------------------------

\* A call of resolve or resolveForAuthor runs fetchRegistry exactly when the
\* mapping it reads is empty or the timestamp is more than cacheDuration
\* behind the clock it reads; when it does not, it is answered in the same
\* step from the mappings, which it leaves alone.  No call starts a fetch
\* later than at its issue.
C14_IssueStep ==
    /\ (IssuedOp /\ NewOp.kind \in {"resolve", "resolveForAuthor"})
       => LET read == IF NewOp.kind = "resolve" THEN registry ELSE authorRegistry
              old  == now' - lastFetched > cacheDuration
          IN  /\ NewOp.fetched <=> (DOMAIN read = {} \/ old)
              /\ NewOp.fetched => NewOp.pc = "fetching"
              /\ ~NewOp.fetched
                 => /\ NewOp.pc = "done"
                    /\ NewOp.result =
                          IF NewOp.kind = "resolve"
                          THEN GlobalEntry(registry, NewOp.name)
                          ELSE AuthorEntry(authorRegistry, NewOp.author, NewOp.name)
                    /\ UNCHANGED <<registry, authorRegistry, lastFetched>>
    /\ \A i \in DOMAIN regOps : regOps'[i].fetched = regOps[i].fetched

\* C14: resolve(name) and resolveForAuthor(author, name) run a refresh before
\* reading if and only if the mapping they read is empty or
\* now - lastFetched > TTL; otherwise they answer from the in-memory mapping
\* with no fetch, returning the entry's blockId or not-found.
C14_RefreshIff == [][C14_IssueStep]_vars

\* A resolve("Chart") called exactly cacheDuration after the fetch that
\* brought Chart -> abc123 was answered abc123 with no fetch.
C14_Witness ==
    /\ Len(regOps) = 2
    /\ regOps[1].fetched /\ regOps[1].pc = "done" /\ ~regOps[1].failed
    /\ regOps[2].kind = "resolve" /\ regOps[2].name = "Chart"
    /\ ~regOps[2].fetched /\ regOps[2].result = "abc123"
    /\ lastFetched = Epoch
    /\ now = Epoch + cacheDuration

\* ---------------------------------------------------------------------------
\* C15
\* ---------------------------------------------------------------------------

\* Whenever a resolve is answered, its answer is the global mapping's entry
\* for the name, and whenever a resolveForAuthor is answered, its answer is
\* the author-scoped mapping's entry at (author, name): the mappings as they
\* are when the method returns.
C15_AnswerStep ==
    \A i \in DOMAIN regOps' :
        (regOps'[i].pc = "done" /\ (i \in DOMAIN regOps => regOps[i].pc # "done"))
        => /\ regOps'[i].kind = "resolve"
              => regOps'[i].result = GlobalEntry(registry', regOps'[i].name)
           /\ regOps'[i].kind = "resolveForAuthor"
              => regOps'[i].result =
                    AuthorEntry(authorRegistry', regOps'[i].author, regOps'[i].name)

\* C15: resolve(name) reads only the global mapping and
\* resolveForAuthor(author, name) only the author-scoped mapping at
\* (author, name): when the two mappings hold different entries for the name
\* the two operations return different identifiers, and an entry present in
\* one mapping alone is not found by the other operation.
C15_Scoping == [][C15_AnswerStep]_vars

\* The global mapping has Chart -> abc123 and alice's has Chart -> xyz789:
\* resolve("Chart") returned abc123 and resolveForAuthor("alice", "Chart")
\* returned xyz789.
C15_Witness ==
    /\ Len(regOps) = 2
    /\ GlobalEntry(registry, "Chart") = "abc123"
    /\ AuthorEntry(authorRegistry, "alice", "Chart") = "xyz789"
    /\ regOps[1].kind = "resolve" /\ regOps[1].name = "Chart"
    /\ regOps[1].pc = "done" /\ regOps[1].result = "abc123"
    /\ regOps[2].kind = "resolveForAuthor" /\ regOps[2].author = "alice"
    /\ regOps[2].name = "Chart"
    /\ regOps[2].pc = "done" /\ regOps[2].result = "xyz789"

\* ---------------------------------------------------------------------------
\* C16
\* ---------------------------------------------------------------------------

\* The step is a clearCache().
ClearedStep ==
    registry' = EmptyObject /\ authorRegistry' = EmptyObject /\ lastFetched' = 0

\* Every step that changes the global mapping and is neither the settlement
\* of a successful request nor a clearCache() sets the entry of one name and
\* nothing else: the other entries, the author-scoped mapping, the timestamp
\* and the calls (none issued, none settled) are as before.
C16_AddStep ==
    (/\ registry' # registry
     /\ ~ClearedStep
     /\ ~\E i \in DOMAIN regOps : Completes(i) /\ ~regOps'[i].failed)
    => /\ \E n \in DOMAIN registry' :
              /\ DOMAIN registry' = DOMAIN registry \cup {n}
              /\ \A m \in DOMAIN registry' \ {n} : registry'[m] = registry[m]
       /\ UNCHANGED <<authorRegistry, lastFetched, regOps>>

\* C16: registerLocal(name, entry) sets exactly the global mapping's entry for
\* name, issues no fetch, and leaves every other global entry, the
\* author-scoped mapping and the last-fetched timestamp unchanged.
C16_RegisterLocal == [][C16_AddStep]_vars

\* Table -> local1 was registered next to the fetched Chart -> abc123; the
\* author-scoped mapping and the timestamp are those of the fetch and no
\* request is outstanding.
C16_Witness ==
    /\ DOMAIN registry = {"Chart", "Table"}
    /\ registry["Chart"] = "abc123"
    /\ registry["Table"] = "local1"
    /\ authorRegistry = RegBoth.authorRegistry
    /\ lastFetched = Epoch
    /\ \A i \in DOMAIN regOps : regOps[i].pc = "done"

\* ---------------------------------------------------------------------------
\* C17
\* ---------------------------------------------------------------------------

\* clearCache() leaves both mappings empty and the timestamp at 0.
C17_ClearStep == (invalidated' /\ ~invalidated) => ClearedStep

\* The first resolve, resolveForAuthor or list issued after a clearCache()
\* runs fetchRegistry.
C17_NextOpStep ==
    (IssuedOp /\ invalidated /\ NewOp.kind \in {"resolve", "resolveForAuthor", "list"})
    => NewOp.fetched

\* C17: invalidate() empties both mappings and resets the last-fetched
\* timestamp, and the next resolve, resolveForAuthor or list operation after
\* it issues a refresh before answering.
C17_Original == [][C17_ClearStep /\ C17_NextOpStep]_vars

\* ---------------------------------------------------------------------------
\* C18
\* ---------------------------------------------------------------------------

\* C18: script injection deduplicates by exact URL: for any sequence and
\* interleaving of loads, at most one script tag per URL is ever appended to
\* the document (and two identifiers whose metadata give the same script URL
\* each run their own module search).
C18_Original ==
    \A j, k \in DOMAIN tags : tags[j].src = tags[k].src => j = k

\* ---------------------------------------------------------------------------
\* C19
\* ---------------------------------------------------------------------------

\* The step is a step of a load of X: a call of loadModule(X), or the
\* progress of an episode of X or of a call of X (metadata result, script
\* result, module search, success, failure, cleanup).
LoadStepOf(X) ==
    \/ \E c \in DOMAIN calls' :
           /\ calls'[c].id = X
           /\ c \in DOMAIN calls => calls'[c] # calls[c]
    \/ \E e \in DOMAIN episodes' :
           /\ episodes'[e].id = X
           /\ e \in DOMAIN episodes => Progress(episodes'[e]) # Progress(episodes[e])

\* The cache entry and the loading promise of Y are as before the step.
EntriesUnchanged(Y) ==
    /\ (Y \in DOMAIN cache') = (Y \in DOMAIN cache)
    /\ Y \in DOMAIN cache => cache'[Y] = cache[Y]
    /\ (Y \in DOMAIN loadingPromises') = (Y \in DOMAIN loadingPromises)
    /\ Y \in DOMAIN loadingPromises => loadingPromises'[Y] = loadingPromises[Y]

C19_FrameStep ==
    \A X \in Ids : \A Y \in Ids \ {X} : LoadStepOf(X) => EntriesUnchanged(Y)

\* C19: loads of different identifiers are independent: every step of a load
\* of X (start, metadata result, script result, module search, success,
\* failure, cleanup) leaves the cache entry and the in-flight entry of every
\* Y # X unchanged, and a load of Y can start and complete while a load of X
\* is still in flight.
C19_Independent == [][C19_FrameStep]_vars

\* The load of a-b is still waiting for its metadata; the load of ab,
\* started after it, has succeeded, is cached and has left no loading promise.
C19_Witness ==
    /\ Len(calls) = 2
    /\ calls[1].id = IdAB /\ calls[1].kind = "own" /\ calls[1].status = "pending"
    /\ episodes[calls[1].ep].pc = "meta"
    /\ IdAB \in DOMAIN loadingPromises
    /\ calls[2].id = IdPlain /\ calls[2].kind = "own" /\ calls[2].status = "settled"
    /\ calls[2].result.kind = "ok"
    /\ IdPlain \in DOMAIN cache
    /\ IdPlain \notin DOMAIN loadingPromises

\* ---------------------------------------------------------------------------
\* C20
\* ---------------------------------------------------------------------------

\* How far _loadModuleInternal has got.
Stage(pc) ==
    CASE pc = "meta" -> 0
      [] pc = "script" -> 1
      [] pc = "loaded" -> 2
      [] pc = "get" -> 3
      [] pc = "settled" -> 4

\* The errors each await of _loadModuleInternal can end with.
StageErrors(pc) ==
    CASE pc = "meta" -> {"Failed to fetch block metadata",
                         "does not have a federation URL", "build status is"}
      [] pc = "script" -> {"Failed to load script"}
      [] OTHER -> {"Federation container not found"}

\* An episode starts by sending its metadata request and only moves forward:
\* it never sends the request again, never goes back to its script or to the
\* start of the search, and never takes a candidate a second time.  It
\* appends at most one script tag and enters the search at most once.  When
\* one of its awaits fails it settles in that step with the error of that
\* await, and once settled it does nothing more.
C20_NoRetryStep ==
    /\ \A e \in DOMAIN episodes' \ DOMAIN episodes : episodes'[e].pc = "meta"
    /\ \A e \in DOMAIN episodes :
        /\ Stage(episodes'[e].pc) >= Stage(episodes[e].pc)
        /\ (episodes[e].pc = "get" /\ episodes'[e].pc = "get")
           => \/ episodes'[e].idx > episodes[e].idx
              \/ Progress(episodes'[e]) = Progress(episodes[e])
        /\ episodes[e].pc = "settled" => Progress(episodes'[e]) = Progress(episodes[e])
        /\ episodes'[e].injected # episodes[e].injected
           => ~episodes[e].injected /\ episodes[e].pc = "meta"
        /\ episodes'[e].searched # episodes[e].searched
           => ~episodes[e].searched /\ episodes[e].pc = "loaded"
        /\ (episodes[e].pc # "settled" /\ episodes'[e].pc = "settled"
              /\ episodes'[e].outcome.kind # "ok")
           => episodes'[e].outcome.kind \in StageErrors(episodes[e].pc)
        /\ (episodes[e].pc = "script" /\ scripts'[episodes[e].url] = "error")
           => /\ episodes'[e].pc = "settled"
              /\ episodes'[e].outcome.kind = "Failed to load script"

\* Every caller of the episode that has been answered holds the outcome of
\* the episode.
C20_DeliveredInv ==
    \A c \in DOMAIN calls :
        (calls[c].kind \in {"own", "join"} /\ calls[c].status = "settled")
        => /\ episodes[calls[c].ep].pc = "settled"
           /\ calls[c].result = episodes[calls[c].ep].outcome

\* C20: within one load episode there is no retry: the episode issues exactly
\* one metadata fetch, at most one script injection and at most one module
\* search, and the first failure among them is delivered unchanged in kind to
\* every caller waiting on that episode.
C20_NoRetry == []C20_DeliveredInv /\ [][C20_NoRetryStep]_vars

\* The script of an episode failed to load: the episode never searched, and
\* the caller that started it and the caller that joined it both got that
\* error.
C20_Witness ==
    /\ Len(calls) = 2
    /\ calls[1].kind = "own" /\ calls[2].kind = "join" /\ calls[2].ep = calls[1].ep
    /\ episodes[calls[1].ep].injected
    /\ ~episodes[calls[1].ep].searched
    /\ episodes[calls[1].ep].outcome.kind = "Failed to load script"
    /\ \A c \in {1, 2} :
           calls[c].status = "settled" /\ calls[c].result.kind = "Failed to load script"

\* ---------------------------------------------------------------------------
\* C21
\* ---------------------------------------------------------------------------

\* The message says 'container not found' or 'is not a function'.
Indicates(msg) ==
    \E i \in DOMAIN msg : msg[i] \in {"container not found", " is not a function"}

\* What the component has done so far: at most three calls of load, a wait
\* of 500 ms before the second and of 1000 ms before the third, and only
\* after failures of the transient kind.
C21_RetryInv ==
    /\ block.loads <= 3
    /\ block.loads = block.attempt
    /\ Len(block.waits) = block.loads - 1
    /\ \A i \in DOMAIN block.waits :
           /\ block.waits[i] = IF i = 1 THEN 500 ELSE 1000
           /\ Indicates(block.failures[i])
    /\ (block.pc = "done" /\ block.error # NoMessage)
       => /\ block.onError = 1
          /\ ~block.isLoading

\* A failure of load is followed by a wait when it is transient and attempts
\* remain, of 500 ms after the first attempt and 1000 ms after the second,
\* with no onError; any other failure puts the component in the error state
\* in that step, with the message of that failure and one call of onError.
C21_FailStep ==
    (block.pc = "load" /\ block'.failures # block.failures)
    => LET msg == block'.failures[Len(block'.failures)] IN
       IF Indicates(msg) /\ block.attempt < 3
       THEN /\ block'.pc = "wait"
            /\ block'.delay = IF block.attempt = 1 THEN 500 ELSE 1000
            /\ block'.onError = block.onError
            /\ block'.isLoading
            /\ block'.error = NoMessage
       ELSE /\ block'.pc = "done"
            /\ block'.error = msg
            /\ ~block'.isLoading
            /\ block'.onError = block.onError + 1
            /\ block'.loads = block.loads

\* C21: one load-and-mount run of Block calls load(blockId) at most 3 times;
\* it retries only when the failure message indicates 'container not found'
\* or 'is not a function' and attempts remain, waiting 500 ms before the
\* second attempt and 1000 ms before the third; any other failure, or a
\* failure of the third attempt, puts the component in the error state at
\* once and calls onError exactly once.
C21_RetryPolicy == []C21_RetryInv /\ [][C21_FailStep]_vars

\* Three attempts found no container, 500 ms and 1000 ms apart: the component
\* shows that error and has called onError once.
C21_Witness ==
    /\ block.pc = "done"
    /\ block.loads = 3
    /\ block.waits = <<500, 1000>>
    /\ block.error = MsgNotFound(block.blockId)
    /\ block.onError = 1
    /\ ~block.isLoading

\* ---------------------------------------------------------------------------
\* C22
\* ---------------------------------------------------------------------------

\* C22: a rendering adapter shows the loading state and then ends either with
\* the block mounted or with a visible error carrying the block identity and
\* message; when the module's mount capability throws, it does not end in a
\* blank, error-free rendered state.
C22_Original ==
    /\ block.pc \in {"load", "wait"} => block.isLoading
    /\ block.pc = "done"
       => /\ ~block.isLoading
          /\ \/ block.MountedComponent /\ block.mounted /\ block.error = NoMessage
             \/ block.error # NoMessage

\* ---------------------------------------------------------------------------
\* C23
\* ---------------------------------------------------------------------------

\* C23: configure({cacheDuration: d}) sets the cache TTL: after it the
\* loader's module cache uses d as its freshness window instead of the
\* 5-minute default, so that a load is served from the cache exactly when the
\* entry is younger than d.
C23_Original ==
    [][ (Len(calls') = Len(calls) + 1 /\ config.cacheDuration # NoDuration)
        => LET X == NewCall.id IN
           (NewCall.kind = "hit")
               <=> (X \in DOMAIN cache
                      /\ NewCall.t0 - cache[X].loadedAt < config.cacheDuration) ]_vars

\* ---------------------------------------------------------------------------
\* C27
\* ---------------------------------------------------------------------------

\* The server base URL in force: the one given to configure(), else the
\* default of the constructor.
ConfiguredBase ==
    IF config.serverUrl # NoUrl THEN config.serverUrl ELSE DefaultServerUrl

\* Those federationUrl values of the model that are absolute URLs.
AbsoluteFedUrls == {AbsoluteUrl}

\* The step hands a script URL to _loadScript for episode e.
ResolvesUrl(e) == episodes[e].pc = "meta" /\ episodes'[e].pc \in {"script", "loaded"}

\* The URL the step hands over, given which federationUrl values are used
\* unchanged: the federationUrl itself, or the server base followed by it; a
\* tag appended in the step carries that URL.
UrlResolved(e, verbatim) ==
    LET f == episodes'[e].meta.federationUrl
        u == IF f \in verbatim THEN f ELSE ConfiguredBase \o f
    IN  /\ episodes'[e].url = u
        /\ episodes'[e].injected
           => /\ scripts[u] = "none" /\ scripts'[u] = "loading"
              /\ \A v \in Urls \ {u} : scripts'[v] = scripts[v]

\* The loader's serverUrl is the configured one.
C27_BaseInv == serverUrl = ConfiguredBase

C27_UrlStep ==
    \A e \in DOMAIN episodes :
        ResolvesUrl(e)
        => UrlResolved(e, { f \in FedUrls \cup {HttpPathUrl} : Len(f) >= 1 /\ f[1] = "http" })

C24_Live ==
    /\ \A c \in 1..MaxCalls :
           (c \in DOMAIN calls /\ calls[c].status = "pending")
               ~> (c \in DOMAIN calls /\ calls[c].status = "settled")
    /\ \A X \in Ids : (X \in DOMAIN loadingPromises) ~> (X \notin DOMAIN loadingPromises)

\* A caller that started a load and a caller that joined it have both been
\* answered after the script was injected and searched, and no loading
\* promise is left.
C24_Witness ==
    /\ Len(calls) >= 2
    /\ calls[1].kind = "own" /\ calls[2].kind = "join"
    /\ \A c \in DOMAIN calls : calls[c].status = "settled"
    /\ episodes[calls[1].ep].injected
    /\ episodes[calls[1].ep].searched
    /\ loadingPromises = EmptyObject

\* ---------------------------------------------------------------------------
\* C25
\* ---------------------------------------------------------------------------

\* The mount function of the block was called and threw.
MountThrew == block.pc = "done" /\ block.MountedComponent /\ ~block.mounted

\* The step in which the mount function throws leaves the loader as it was.
C25_ThrowStep ==
    (block.pc = "wrapper" /\ block'.pc = "done" /\ ~block'.mounted)
    => UNCHANGED <<cache, loadingPromises, episodes, calls, scripts>>

\* A load of the block issued after its mount threw, while its entry is
\* younger than the TTL, returns the cached handle, the one whose mount
\* threw, and starts nothing.
C25_NextLoadStep ==
    (/\ Len(calls') = Len(calls) + 1
     /\ MountThrew
     /\ NewCall.id = block.blockId
     /\ ValidEntry(NewCall.id, NewCall.t0))
    => /\ NewCall.kind = "hit"
       /\ NewCall.status = "settled"
       /\ NewCall.result = Ok(block.module)
       /\ NoLoadActivity
       /\ UNCHANGED <<cache, loadingPromises>>

\* C25: a failure thrown by a module's mount capability leaves the loader's
\* cache and in-flight table unchanged: the cache entry of that block stays
\* valid and a following load of the same identifier within the TTL returns
\* the same handle without network activity.
C25_MountFailure == [][C25_ThrowStep /\ C25_NextLoadStep]_vars

\* The mount of the loaded module threw; the next load of the block was a
\* cache hit on that module.
C25_Witness ==
    /\ MountThrew
    /\ Len(calls) = 2
    /\ calls[1].kind = "own" /\ calls[1].result = Ok(block.module)
    /\ calls[2].kind = "hit" /\ calls[2].result = Ok(block.module)
    /\ calls[2].t0 > calls[1].t0
    /\ IdAB \in DOMAIN cache

\* ---------------------------------------------------------------------------
\* C26
\* ---------------------------------------------------------------------------

\* clearCache(X) removes the entry of X and no other; clearCache() removes
\* every entry; the loading promises stay.
C26_ClearStep ==
    info'.op = "clearCache"
    => /\ info'.arg # NoArg
          => /\ DOMAIN cache' = DOMAIN cache \ {info'.arg}
             /\ \A Y \in DOMAIN cache' : cache'[Y] = cache[Y]
       /\ info'.arg = NoArg => cache' = EmptyObject
       /\ loadingPromises' = loadingPromises

\* getCacheInfo() gives the entries of the cache and changes nothing.
C26_GetStep ==
    info'.op = "getCacheInfo"
    => info'.copy = cache /\ UNCHANGED <<cache, loadingPromises>>

\* Adding a key to the object getCacheInfo() gave, or removing one, changes
\* that object and not the loader's cache.
C26_EditStep ==
    info'.op = "edit"
    => /\ DOMAIN info'.copy # DOMAIN info.copy
       /\ UNCHANGED <<cache, loadingPromises>>

\* C26: clearCache(X) with a non-empty X removes exactly X's cache entry and
\* leaves every other entry unchanged; clearCache() removes all entries;
\* neither changes the in-flight table; getCacheInfo() returns a copy whose
\* added or removed keys do not change the loader's cache.
C26_Introspection == [][C26_ClearStep /\ C26_GetStep /\ C26_EditStep]_vars

\* Both identifiers were cached and a copy taken; clearCache(a-b) left the
\* entry of ab alone, and a key deleted from the copy is still in the cache.
C26_Witness ==
    /\ info.op = "edit"
    /\ info.arg = IdPlain
    /\ DOMAIN info.copy = {IdAB}
    /\ DOMAIN cache = {IdPlain}
    /\ \E e \in DOMAIN episodes : episodes[e].id = IdAB /\ episodes[e].cleared # "no"

\* ---------------------------------------------------------------------------
\* C28
\* ---------------------------------------------------------------------------

\* Episode e enters _extractModule in this step.
SearchStarts(e) == ~episodes[e].searched /\ episodes'[e].searched

\* The load state of the script tag of episode e.
TagOf(e) == scripts[episodes[e].url]

\* C28: the module search of a load episode starts only after the script at
\* its URL has signalled a successful load: never while the tag is present but
\* still loading, nor after that script's load errored in an earlier episode.
C28_Original ==
    [][\A e \in DOMAIN episodes : SearchStarts(e) => TagOf(e) = "loaded"]_vars

\* ---------------------------------------------------------------------------
\* C29
\* ---------------------------------------------------------------------------

\* Episode e starts in this step or moves on, and does not succeed in it.
FailingStepOf(e) ==
    /\ e \in DOMAIN episodes => Progress(episodes'[e]) # Progress(episodes[e])
    /\ episodes'[e].outcome.kind # "ok"

\* Every step of a load episode but the one in which it succeeds leaves the
\* cache as it was: the entries, their modules and their timestamps.
C29_FailingStep ==
    (\E e \in DOMAIN episodes' : FailingStepOf(e)) => cache' = cache

\* No entry of the cache was written by an episode that failed.
C29_NoEntryOfFailure ==
    \A X \in DOMAIN cache : ~IsFailure(episodes[cache[X].by].outcome)

\* C29: a failed load episode for X leaves the module cache unchanged: no
\* entry is written for X, and an expired entry that existed before the
\* episode is still present, and still expired, after it.
C29_FailedEpisode == []C29_NoEntryOfFailure /\ [][C29_FailingStep]_vars

\* The second load of a-b found the entry of the first expired and failed;
\* its caller has the error, and the expired entry of the first is in the
\* cache.
C29_Witness ==
    /\ Len(calls) >= 2
    /\ calls[2].kind = "own" /\ calls[2].ep = 2
    /\ calls[2].status = "settled" /\ IsFailure(calls[2].result)
    /\ IsFailure(episodes[2].outcome)
    /\ episodes[2].id \in DOMAIN cache
    /\ cache[episodes[2].id].by = 1
    /\ calls[2].t0 - cache[episodes[2].id].loadedAt >= TTL
    /\ now - cache[episodes[2].id].loadedAt >= TTL

\* ---------------------------------------------------------------------------
\* C30
\* ---------------------------------------------------------------------------

\* Module m exports a mount function, directly or under default.
ExposesMount(m) ==
    \/ Exports(m).mount = "function"
    \/ Exports(m).default /\ Exports(m).defaultMount = "function"

\* C30: every cached handle passed validation: in every reachable state each
\* cache entry's handle exposes mount, directly or under default, and was
\* written by a load episode of the same identifier as its key.
C30_ValidHandles ==
    \A X \in DOMAIN cache :
        /\ cache[X].component \in Modules
        /\ ExposesMount(cache[X].component)
        /\ cache[X].by \in DOMAIN episodes
        /\ episodes[cache[X].by].id = X
        /\ episodes[cache[X].by].outcome = Ok(cache[X].component)

\* On a page that holds a module without mount under an earlier name, the
\* load of a-b skipped it and cached the module that exports mount under
\* default.
C30_Witness ==
    /\ IdAB \in DOMAIN cache
    /\ cache[IdAB].component = "mDefault"
    /\ \E n \in Names : window[n] = "mNone"
    /\ episodes[cache[IdAB].by].idx > 1

\* ---------------------------------------------------------------------------
\* C31
\* ---------------------------------------------------------------------------

\* The page has a usable container under 'threescene' and under no other name.
OnlyLegacy == Usable(ThreeScene) /\ \A n \in Names \ {ThreeScene} : ~Usable(n)

\* C31: legacy fallback: when the global namespace exposes a usable container
\* only under the fixed name 'threescene', load(X) succeeds for every
\* identifier X whose script was loaded and caches that container's module
\* under X, so two different identifiers can hold handles to the same module.
C31_LegacyFallback ==
    OnlyLegacy =>
        \A e \in DOMAIN episodes :
            (episodes[e].pc = "settled" /\ episodes[e].searched)
            => /\ episodes[e].outcome = Ok(window[ThreeScene])
               /\ episodes[e].id \in DOMAIN cache
               /\ cache[episodes[e].id].component = window[ThreeScene]
               /\ cache[episodes[e].id].by = e

\* Both identifiers were loaded on a page whose other names hold a rejecting
\* container and a module without mount: both calls returned the module of
\* 'threescene' and both cache entries hold it.
C31_Witness ==
    /\ OnlyLegacy
    /\ \E n \in Names : window[n] = "rejects"
    /\ \E n \in Names : window[n] = "mNone"
    /\ DOMAIN cache = Ids
    /\ cache[IdAB].component = cache[IdPlain].component
    /\ Len(calls) = 2
    /\ \A c \in DOMAIN calls :
           calls[c].status = "settled" /\ calls[c].result = Ok(window[ThreeScene])

\* ---------------------------------------------------------------------------
\* C32
\* ---------------------------------------------------------------------------

\* C32: one load episode uses a single server base URL: when setServerUrl is
\* called while a load is in flight, the base URL that prefixes a relative
\* federationUrl for the script is the one the episode's metadata request was
\* sent to.
C32_Original ==
    \A e \in DOMAIN episodes :
        (episodes[e].url # NoUrl /\ ~startsWithHttp(episodes[e].meta.federationUrl))
        => episodes[e].url = episodes[e].base \o episodes[e].meta.federationUrl

\* ---------------------------------------------------------------------------
\* C33
\* ---------------------------------------------------------------------------

\* The call issued in this step.
NewRegOp == regOps'[Len(regOps')]

\* A resolve or a list issued while the registry is stale or empty sends a
\* request of its own, whatever requests are outstanding.
C33_CallStep ==
    (/\ Len(regOps') = Len(regOps) + 1
     /\ NewRegOp.kind \in {"resolve", "list"}
     /\ (now' - lastFetched > cacheDuration \/ DOMAIN registry = {}))
    => NewRegOp.pc = "fetching" /\ NewRegOp.fetched

\* A response that arrives replaces both mappings and sets the timestamp,
\* whether or not a call issued later has had its response; the call that
\* awaited it answers from what arrived.
C33_ArrivalStep ==
    \A i \in DOMAIN regOps :
        (regOps[i].pc = "fetching" /\ regOps'[i].pc = "done" /\ ~regOps'[i].failed)
        => /\ lastFetched' = now'
           /\ \E resp \in RegResponses :
                  /\ ~resp.error
                  /\ registry' = (IF "registry" \in resp.has THEN resp.registry
                                  ELSE EmptyObject)
                  /\ authorRegistry' = (IF "authorRegistry" \in resp.has
                                        THEN resp.authorRegistry ELSE EmptyObject)
           /\ regOps'[i].kind = "resolve"
              => regOps'[i].result = (IF regOps'[i].name \in DOMAIN registry'
                                      THEN registry'[regOps'[i].name] ELSE NoBlock)

\* C33: registry refreshes are not coalesced: k resolve or list calls issued
\* while the cache is stale or empty and before any response arrives issue k
\* separate fetches, and when several refreshes are outstanding the mappings
\* end up holding the response that arrived last, not the response of the
\* refresh that was issued last.
C33_NotCoalesced == [][C33_CallStep /\ C33_ArrivalStep]_vars

\* Two resolves of Chart each sent a request.  The second got the catalog
\* with Chart; the first got the catalog without it afterwards, and that
\* catalog is what the registry holds.
C33_Witness ==
    /\ Len(regOps) = 2
    /\ \A i \in DOMAIN regOps :
           /\ regOps[i].kind = "resolve"
           /\ regOps[i].fetched /\ regOps[i].pc = "done" /\ ~regOps[i].failed
    /\ regOps[2].result = RegBoth.registry["Chart"]
    /\ regOps[1].result = NoBlock
    /\ registry = RegGlobalOnly.registry
    /\ lastFetched = Epoch

\* ---------------------------------------------------------------------------
\* C34
\* ---------------------------------------------------------------------------

\* A request that was outstanding when clearCache() was called, and since
\* which no method was called, succeeds: both mappings are those of its
\* response and the timestamp is the time of arrival.
C34_ArrivalStep ==
    \A i \in DOMAIN regOps :
        (invalidated /\ regOps[i].pc = "fetching" /\ regOps'[i].pc = "done"
                     /\ ~regOps'[i].failed)
        => /\ lastFetched' = now'
           /\ ~(now' - lastFetched' > cacheDuration)
           /\ \E resp \in RegResponses :
                  /\ ~resp.error
                  /\ registry' = (IF "registry" \in resp.has THEN resp.registry
                                  ELSE EmptyObject)
                  /\ authorRegistry' = (IF "authorRegistry" \in resp.has
                                        THEN resp.authorRegistry ELSE EmptyObject)

\* The first resolve or list after that arrival, within cacheDuration of it
\* and with a catalog that is not empty, sends no request.
C34_AccessStep ==
    (/\ Len(regOps') = Len(regOps) + 1
     /\ invalidated
     /\ lastFetched # 0
     /\ NewRegOp.kind \in {"resolve", "list"}
     /\ DOMAIN registry # {}
     /\ now' - lastFetched <= cacheDuration)
    => /\ ~NewRegOp.fetched
       /\ NewRegOp.pc = "done"
       /\ NewRegOp.kind = "resolve"
          => NewRegOp.result = (IF NewRegOp.name \in DOMAIN registry
                                THEN registry[NewRegOp.name] ELSE NoBlock)

\* C34: clearCache() called while a refresh is outstanding does not cancel
\* it: when that refresh later succeeds, both mappings are populated from its
\* response and the timestamp is set, so the registry is fresh again without
\* any access having forced a new refresh after the clearCache().
C34_NotCancelled == [][C34_ArrivalStep /\ C34_AccessStep]_vars

\* clearCache() came while the request of a resolve was outstanding and no
\* method was called since; the response has arrived, the registry holds its
\* catalog and the timestamp is the time of arrival.
C34_Witness ==
    /\ invalidated
    /\ Len(regOps) = 1
    /\ regOps[1].kind = "resolve"
    /\ regOps[1].fetched /\ regOps[1].pc = "done" /\ ~regOps[1].failed
    /\ regOps[1].result = RegBoth.registry["Chart"]
    /\ registry = RegBoth.registry
    /\ authorRegistry = RegBoth.authorRegistry
    /\ lastFetched = now

\* ---------------------------------------------------------------------------
\* C35
\* ---------------------------------------------------------------------------

\* The step is an addComponent: an entry of the application appears under a
\* name and no call is issued or answered.  It leaves the timestamp alone.
C35_AddStep ==
    (/\ regOps' = regOps
     /\ registry' # registry
     /\ \E n \in ComponentNames : \E b \in LocalBlockIds :
            n \in DOMAIN registry' /\ registry'[n] = b
                /\ (n \notin DOMAIN registry \/ registry[n] # b))
    => lastFetched' = lastFetched

\* A resolve of a name that holds an entry of the application: within
\* cacheDuration of the last fetch it returns that entry, and later, or on a
\* registry never fetched, it sends a request first.
C35_CallStep ==
    (/\ Len(regOps') = Len(regOps) + 1
     /\ NewRegOp.kind = "resolve"
     /\ NewRegOp.name \in DOMAIN registry
     /\ registry[NewRegOp.name] \in LocalBlockIds)
    => IF now' - lastFetched > cacheDuration
       THEN NewRegOp.pc = "fetching" /\ NewRegOp.fetched
       ELSE NewRegOp.pc = "done" /\ ~NewRegOp.fetched
                /\ NewRegOp.result = registry[NewRegOp.name]

\* When the catalog arrives, the entries of the application are gone and the
\* resolve returns what the catalog holds under the name: null when it lacks
\* the name.
C35_ArrivalStep ==
    \A i \in DOMAIN regOps :
        (/\ regOps[i].kind = "resolve"
         /\ regOps[i].pc = "fetching" /\ regOps'[i].pc = "done" /\ ~regOps'[i].failed)
        => /\ \A n \in DOMAIN registry' : registry'[n] \notin LocalBlockIds
           /\ regOps'[i].result = (IF regOps[i].name \in DOMAIN registry'
                                   THEN registry'[regOps[i].name] ELSE NoBlock)

\* C35: an entry added by addComponent(name, e) is returned by resolve(name)
\* only until the next successful refresh: addComponent does not touch the
\* timestamp, so a resolve(name) made while the registry is stale (including
\* straight after addComponent on a registry never fetched) refreshes first
\* and returns not-found when the fetched catalog lacks name.
C35_LocalUntilRefresh == [][C35_AddStep /\ C35_CallStep /\ C35_ArrivalStep]_vars

\* On a registry never fetched, Chart was registered by the application and
\* then resolved: the resolve has sent a request and waits for the catalog.
C35_Witness ==
    /\ Len(regOps) = 1
    /\ regOps[1].kind = "resolve" /\ regOps[1].name = "Chart"
    /\ regOps[1].pc = "fetching"
    /\ lastFetched = 0
    /\ "Chart" \in DOMAIN registry /\ registry["Chart"] \in LocalBlockIds

\* ---------------------------------------------------------------------------
\* C36
\* ---------------------------------------------------------------------------

\* The run has ended with a component to render and no error, or with an
\* error and no component, after at most three calls of loadModule.
C36_EndState ==
    /\ block.loads <= 3
    /\ \/ block.MountedComponent /\ block.error = NoMessage
       \/ ~block.MountedComponent /\ block.error # NoMessage

\* C36: the load-and-mount run of Block terminates: provided every
\* loadModule(blockId) call settles, each run ends after at most 3 attempts in
\* exactly one of two states with the loading flag cleared, a
\* mounted-component state with no error or an error state, and never stays in
\* the loading state.
C36_Terminates ==
    /\ block.isLoading ~> ~block.isLoading
    /\ [](~block.isLoading => [](~block.isLoading /\ C36_EndState))
    /\ [](block.loads <= 3)

\* Two loads failed on a missing container and the third gave the module:
\* the run ended with the component set, no error and the flag cleared.
C36_Witness ==
    /\ block.loads = 3
    /\ block.waits = <<500, 1000>>
    /\ block.MountedComponent
    /\ block.error = NoMessage
    /\ ~block.isLoading

\* ---------------------------------------------------------------------------
\* C37
\* ---------------------------------------------------------------------------

\* C37: AuthorBlock ends in the rendered state whenever the registry resolves
\* (author, component) to an identifier and the load of that identifier
\* succeeds with a module exposing a mount function; its outcome does not
\* depend on the metadata request made after the module load.
C37_Original ==
    \A r \in DOMAIN authorBlock.runs :
        LET run == authorBlock.runs[r] IN
        (/\ run.pc = "done"
         /\ run.isMounted
         /\ run.blockId # NoId
         /\ run.module \in LoadedModules)
        => /\ authorBlock.BlockComponent = r
           /\ authorBlock.error = << >>
           /\ ~authorBlock.loading

\* ---------------------------------------------------------------------------
\* C38
\* ---------------------------------------------------------------------------

\* What AuthorBlock renders from.
AuthorState ==
    <<authorBlock.BlockComponent, authorBlock.metadata, authorBlock.error,
      authorBlock.loading>>

\* C38: a superseded effect run of AuthorBlock (isMounted is false) never
\* updates the component's state: after the props change from (a1, c1) to
\* (a2, c2) the displayed component, metadata, error and loading flag are
\* those produced by the run for (a2, c2), whatever order the awaits of the
\* two runs complete in.
C38_Original ==
    [][\A r \in DOMAIN authorBlock.runs :
           (~authorBlock.runs[r].isMounted
                /\ authorBlock'.runs[r].pc # authorBlock.runs[r].pc)
           => AuthorState' = AuthorState]_vars

====
